---- MODULE Spec2Model ----
(***************************************************************************)
(* A model of the reliability layer and refinement orchestrator of the     *)
(* reverse-engineering pipeline: the MAKER voter (true_maker.py), the      *)
(* per-variable rename stage (maker_nodes.py, refactory_pipeline.py), the  *)
(* trace client (agent_lightning_bridge.py), the Librarian (librarian.py), *)
(* identifier-safe substitution and the rewrite stage                      *)
(* (refactory_agents.py), and the pause / stop protocol between the user   *)
(* interface (dashboard.py, launcher.py) and the workers.                  *)
(*                                                                         *)
(* Conventions.  A Python dict is a sequence of <<key, value>> pairs with  *)
(* pairwise distinct keys, in insertion order.  A text is a sequence of    *)
(* one-character strings.  Rewards are in tenths (+0.1 is 1, -0.5 is -5).  *)
(***************************************************************************)
EXTENDS Integers, Sequences, FiniteSets, TLC

VARIABLES
    \* ---- rename stage of one module (SequentialVoting, true_maker_rename)
    module_vars,      \* module["functions"][i]["variables"], one list per function
    k,                \* config.k
    oracle,           \* how the oracle behaves in this run
    pc,               \* "vote": inside do_voting's loop; "done": stage returned
    fi,               \* index of the function being renamed
    vi,               \* index of the variable being voted on
    vote_counts,      \* do_voting's vote_counts, in insertion order
    sample_count,     \* do_voting's sample_count
    valid_count,      \* do_voting's valid_count
    last_temp,        \* temperature_override of the latest sample
    last_sample,      \* what the latest _get_vote call was answered, returned and logged
    last_return,      \* what do_voting returned, and where from, if it returned in the latest step
    report,           \* what true_maker_rename printed for that vote's variable
    final_renames,    \* true_maker_rename's final_renames
    all_renames,      \* _run_renaming_stage's all_renames
    confirmed_renames,\* state["confirmed_renames"]
    \* ---- pause / stop protocol between the user interface and the workers
    stop_event,       \* threading.Event stop_event: TRUE when set
    pause_event,      \* threading.Event pause_event: TRUE when set (running)
    worker,           \* per worker: its position in process_module and its vote
    \* ---- identifier substitution (_safe_replace and the loops that call it)
    edits,            \* the calls to make: confirmed_types, then confirmed_renames
    edit_idx,         \* index of the next call
    passes,           \* how many times the whole list has been applied
    code_before,      \* the text handed to the latest call
    code,             \* the current text
    first_pass_code,  \* the text after the first application of the list
    \* ---- rewrite stage (_run_stage with refactoring_agent and its validator)
    module_code,      \* func["code"] for each function of the module
    rw_edits,         \* confirmed_types and confirmed_renames of the state
    rw_pc,            \* "agent", "validator" or "done"
    attempt,          \* _run_stage's attempt
    refactoring_proposals,
    confirmed_refactorings,
    \* ---- Librarian.cluster_functions
    functions,        \* the input list
    min_module_size,
    max_module_size,
    lpc,              \* "outer", "dfs", "close", "done"
    fidx,             \* index of `func` in the outer loop
    visited,
    cluster,
    stack,
    modules,
    \* ---- RefactoryPipeline.run: the pool, the collection loop, the output
    module_names,     \* module["module_name"] of each ModuleGroup, in order
    max_workers,      \* size of the ThreadPoolExecutor
    task,             \* per module, the state of its future
    run_pc,           \* position of the thread that executes run()
    all_source_files, \* run()'s all_source_files
    written,          \* the source files in the output directory
    completed_before_stop, \* modules whose worker returned files before stop was set
    module_errors,    \* modules for which run() printed "[ERROR] Module ... generated an exception"
    judge_invocations,\* how many times run() has had the Judge assess the build
    final_score,      \* run()'s final_score
    \* ---- CompilerJudge with its trace client
    client_traces,    \* AgentLightningClient.traces of the Judge's client
    assess_calls,     \* how many assess_build calls have returned
    build_outcome,    \* what the build tool did in the latest call
    build_reward,     \* what the latest assess_build call returned, in tenths
    \* ---- MakerConfig
    raw_error_rate,   \* estimated_error_rate as passed in, in hundredths
    target_root,      \* target_reliability ** (1 / total_steps), in hundredths
    total_steps,      \* total_steps as passed in
    estimated_error_rate, \* self.estimated_error_rate, in hundredths
    k_override,       \* self.k_override: <<>> for None, <<n>> for n
    config_k,         \* self.k
    config_pc,        \* "new", "constructed", "calibrated" or "failed"
    feasible,         \* the is_feasible that calibrate returned
    \* ---- Stage 0.5 of process_module: the secrets report
    findings,         \* per module, the labels of inspect_module's findings, in dict order
    file_lock,        \* self.file_lock: 0 when free, else the worker that holds it
    secrets_report,   \* the lines of SECRETS_REPORT.md, each with the module that wrote it
    inspector,        \* per module's worker: its position in Stage 0.5
    \* ---- AgentLightningClient under concurrent log_transition calls
    client_lock,      \* self.lock: 0 when free, else the thread that holds it
    step_counter,     \* self.step_counter
    self_traces,      \* self.traces
    trace_file,       \* the records of trace_<id>.jsonl, one per line
    logger,           \* per calling thread: its position in log_transition and its locals
    \* ---- one module's state through the stages of process_module
    module_state,     \* the RefactoryState dict, as a function from its keys
    stage_pc,         \* <<"check" or "run", stage>>, <<"returned", "">> or <<"cancelled", "">>
    stage_attempt,    \* _run_stage's attempt
    stage_fi,         \* index of `func` in _run_renaming_stage's loop
    stage_all_renames,\* _run_renaming_stage's all_renames
    type_calls,       \* how many times _run_stage has called type_recovery_agent
    \* ---- main_pipeline_wrapper and run_ghidra_export
    entry,            \* who called main_pipeline_wrapper
    driver_pc,        \* position of the thread that executes main_pipeline_wrapper
    returncode,       \* process.returncode: <<>> for None, <<n>> for n
    export_exists,    \* os.path.exists(output_json)
    export_only,      \* the export_only argument
    pipeline_started, \* RefactoryPipeline.run has been called
    stop_observed,    \* what the driver's latest stop_event.is_set() returned
    \* ---- one do_voting call and the outputs it counted
    tally_pc,         \* "vote": inside the loop; "returned": do_voting returned
    tally_samples,    \* sample_count
    tally_counts,     \* vote_counts, in insertion order
    tally_outputs,    \* the accepted oracle outputs, as the pairs of their text
    tally_slots,      \* per accepted output, the position in vote_counts it incremented
    \* ---- measure_model_difficulty
    calib_samples,    \* per test sample, what llm.invoke does for it
    calib_i,          \* index of the next sample of the loop
    success_count,    \* success_count
    calib_invocations,\* how many times llm.invoke has been called
    calib_pc,         \* "loop" or "returned"
    p_score,          \* the returned p as <<numerator, denominator>>
    is_feasible,      \* the returned is_feasible
    \* ---- the dashboard's consensus and graph channels during one module run
    consensus_queue,  \* dashboard.consensus_queue: the events put and not yet drained
    graph_queue,      \* dashboard.graph_queue
    channel_pc,       \* "voting", "post" or "returned"
    channel_counts,   \* do_voting's vote_counts
    channel_samples,  \* do_voting's sample_count
    consensus_chart,  \* <<x-axis data, series data>> of the consensus chart
    star_map,         \* <<nodes, links>> of the graph view
    \* ---- the agent of _run_renaming_stage and the votes it takes
    variable_counts,  \* len(func["variables"]) for each function of the module
    agent_total_steps,\* agent.config.total_steps: 0 before the agent is created
    agent_k,          \* agent.config.k: 0 before the agent is created
    rename_pc,        \* "create", "function", "vote" or "returned"
    rename_fi,        \* index of `func` in the loop over the functions
    rename_vi,        \* index of var_name in true_maker_rename's loop
    used_k,           \* per function, the k of each do_voting call made for it
    \* ---- the renames of one module, from the votes to the rewrite stage
    unit_list,        \* module["functions"]: code and variables of each function
    unit_renames,     \* per function, result["final_renames"] of true_maker_rename
    merge_all,        \* _run_renaming_stage's all_renames
    merge_confirmed,  \* state["confirmed_renames"]
    merge_fi,         \* index of `func` in _run_renaming_stage's loop
    merge_pc,         \* "renaming", "rewrite" or "done"
    merge_prompts,    \* per function, the code refactoring_agent puts in its request
    merge_proposals   \* the refactoring_proposals refactoring_agent returns

voteVars == <<module_vars, k, oracle, pc, fi, vi, vote_counts, sample_count, valid_count,
              last_temp, last_sample, last_return, report, final_renames,
              all_renames, confirmed_renames>>

pipeVars == <<stop_event, pause_event, worker>>

textVars == <<edits, edit_idx, passes, code_before, code, first_pass_code>>

rewriteVars == <<module_code, rw_edits, rw_pc, attempt, refactoring_proposals,
                 confirmed_refactorings>>

libVars == <<functions, min_module_size, max_module_size, lpc, fidx, visited,
             cluster, stack, modules>>

runVars == <<module_names, max_workers, task, run_pc, all_source_files, written,
             completed_before_stop, module_errors, judge_invocations, final_score>>

judgeVars == <<client_traces, assess_calls, build_outcome, build_reward>>

configVars == <<raw_error_rate, target_root, total_steps, estimated_error_rate,
                k_override, config_k, config_pc, feasible>>

reportVars == <<findings, file_lock, secrets_report, inspector>>

clientVars == <<client_lock, step_counter, self_traces, trace_file, logger>>

stageVars == <<module_state, stage_pc, stage_attempt, stage_fi, stage_all_renames,
              type_calls>>

driverVars == <<entry, driver_pc, returncode, export_exists, export_only, pipeline_started,
               stop_observed>>

tallyVars == <<tally_pc, tally_samples, tally_counts, tally_outputs, tally_slots>>

calibVars == <<calib_samples, calib_i, success_count, calib_invocations, calib_pc,
              p_score, is_feasible>>

channelVars == <<consensus_queue, graph_queue, channel_pc, channel_counts, channel_samples,
                consensus_chart, star_map>>

agentVars == <<variable_counts, agent_total_steps, agent_k, rename_pc, rename_fi, rename_vi,
              used_k>>

mergeVars == <<unit_list, unit_renames, merge_all, merge_confirmed, merge_fi, merge_pc,
              merge_prompts, merge_proposals>>

lateVars == <<calibVars, channelVars, agentVars, mergeVars>>

restVars == <<reportVars, clientVars, stageVars, driverVars, tallyVars, lateVars>>

vars == <<voteVars, pipeVars, textVars, rewriteVars, libVars, runVars, judgeVars,
          configVars, restVars>>

-----------------------------------------------------------------------------
(* Bounds of the model and constants of the program.                       *)

MaxK == 2
NumWorkers == 2
max_samples == 100
max_attempts == 3
DefaultK == 2
TempDecayThreshold == 20
RewardValid == 1
RewardRedFlag == 0 - 5

-----------------------------------------------------------------------------
(* Each specification below runs one part of the program; the variables of *)
(* the other parts stay at these values.                                   *)

IdleWorker == [phase |-> "check", stage |-> 0, attempt |-> 0, sample_count |-> 0,
               vote_counts |-> <<>>, result |-> "none", stopped_in_wait |-> FALSE]

IdlePipe ==
    /\ stop_event = FALSE
    /\ pause_event = TRUE
    /\ worker = [w \in 1..NumWorkers |-> IdleWorker]

IdleText ==
    /\ edits = <<>>
    /\ edit_idx = 1
    /\ passes = 0
    /\ code_before = <<>>
    /\ code = <<>>
    /\ first_pass_code = <<>>

IdleRewrite ==
    /\ module_code = <<>>
    /\ rw_edits = <<>>
    /\ rw_pc = "done"
    /\ attempt = 0
    /\ refactoring_proposals = <<>>
    /\ confirmed_refactorings = <<>>

IdleLib ==
    /\ functions = <<>>
    /\ min_module_size = 1
    /\ max_module_size = 1
    /\ lpc = "done"
    /\ fidx = 1
    /\ visited = {}
    /\ cluster = {}
    /\ stack = <<>>
    /\ modules = <<>>

IdleRun ==
    /\ module_names = <<>>
    /\ max_workers = 1
    /\ task = <<>>
    /\ run_pc = "returned"
    /\ all_source_files = <<>>
    /\ written = <<>>
    /\ completed_before_stop = {}
    /\ module_errors = {}
    /\ judge_invocations = 0
    /\ final_score = "none"

IdleJudge ==
    /\ client_traces = <<>>
    /\ assess_calls = 0
    /\ build_outcome = "none"
    /\ build_reward = 0

IdleConfig ==
    /\ raw_error_rate = 1
    /\ target_root = 95
    /\ total_steps = 1
    /\ estimated_error_rate = 1
    /\ k_override = <<>>
    /\ config_k = DefaultK
    /\ config_pc = "constructed"
    /\ feasible = TRUE

IdleReport ==
    /\ findings = <<>>
    /\ file_lock = 0
    /\ secrets_report = <<>>
    /\ inspector = <<>>

IdleClient ==
    /\ client_lock = 0
    /\ step_counter = 0
    /\ self_traces = <<>>
    /\ trace_file = <<>>
    /\ logger = <<>>

IdleStage ==
    /\ module_state = <<>>
    /\ stage_pc = <<"returned", "">>
    /\ stage_attempt = 0
    /\ stage_fi = 1
    /\ stage_all_renames = <<>>
    /\ type_calls = 0

IdleDriver ==
    /\ entry = "launcher"
    /\ driver_pc = "returned"
    /\ returncode = <<0>>
    /\ export_exists = FALSE
    /\ export_only = FALSE
    /\ pipeline_started = FALSE
    /\ stop_observed = FALSE

IdleTally ==
    /\ tally_pc = "returned"
    /\ tally_samples = 0
    /\ tally_counts = <<>>
    /\ tally_outputs = <<>>
    /\ tally_slots = <<>>

IdleCalib ==
    /\ calib_samples = <<>>
    /\ calib_i = 1
    /\ success_count = 0
    /\ calib_invocations = 0
    /\ calib_pc = "returned"
    /\ p_score = <<0, 1>>
    /\ is_feasible = FALSE

IdleChannel ==
    /\ consensus_queue = <<>>
    /\ graph_queue = <<>>
    /\ channel_pc = "returned"
    /\ channel_counts = <<>>
    /\ channel_samples = 0
    /\ consensus_chart = <<>>
    /\ star_map = <<>>

IdleAgent ==
    /\ variable_counts = <<>>
    /\ agent_total_steps = 0
    /\ agent_k = 0
    /\ rename_pc = "returned"
    /\ rename_fi = 1
    /\ rename_vi = 1
    /\ used_k = <<>>

IdleMerge ==
    /\ unit_list = <<>>
    /\ unit_renames = <<>>
    /\ merge_all = <<>>
    /\ merge_confirmed = <<>>
    /\ merge_fi = 1
    /\ merge_pc = "done"
    /\ merge_prompts = <<>>
    /\ merge_proposals = <<>>

IdleLate == IdleCalib /\ IdleChannel /\ IdleAgent /\ IdleMerge

IdleRest == IdleReport /\ IdleClient /\ IdleStage /\ IdleDriver /\ IdleTally /\ IdleLate

-----------------------------------------------------------------------------
(* Python dicts as insertion-ordered sequences of pairs.                   *)

NameOrder == <<"#5", "n1", "n2", "v1", "v2", "zz">>

Ord(s) == CHOOSE i \in 1..Len(NameOrder) : NameOrder[i] = s

DictKeys(d) == {d[i][1] : i \in 1..Len(d)}

DictHas(d, key) == key \in DictKeys(d)

DictGet(d, key) == d[CHOOSE i \in 1..Len(d) : d[i][1] = key][2]

DictSet(d, key, val) ==
    IF DictHas(d, key)
    THEN [i \in 1..Len(d) |-> IF d[i][1] = key THEN <<key, val>> ELSE d[i]]
    ELSE Append(d, <<key, val>>)

RECURSIVE DictUpdate(_, _)
DictUpdate(d, e) ==
    IF e = <<>> THEN d
    ELSE DictUpdate(DictSet(d, Head(e)[1], Head(e)[2]), Tail(e))

\* json.loads of an object text: a repeated key keeps its first position and
\* its last value.
JsonLoadsObject(pairs) == DictUpdate(<<>>, pairs)

RECURSIVE InsertSorted(_, _)
InsertSorted(p, s) ==
    IF s = <<>> THEN <<p>>
    ELSE IF Ord(p[1]) <= Ord(Head(s)[1]) THEN <<p>> \o s
    ELSE <<Head(s)>> \o InsertSorted(p, Tail(s))

RECURSIVE SortKeys(_)
SortKeys(d) == IF d = <<>> THEN <<>> ELSE InsertSorted(Head(d), SortKeys(Tail(d)))

\* A slip in line 283: json.dumps(vote) without sort_keys.
JsonDumps_InsertionOrder(d) == d

\* json.dumps(vote, sort_keys=True): the text is determined by the pairs in
\* key order, and is represented by that sequence.
JsonDumpsSorted(d) == SortKeys(d)

\* json.loads(winner_key): the dict in the order of the text.
JsonLoadsKey(key) == key

NonStringValues == {"#5"}

IsStr(v) == v \notin NonStringValues

-----------------------------------------------------------------------------
(* Oracle responses.                                                       *)

\* JSON objects the oracle may answer with, as the key/value pairs of the text.
ObjectBodies ==
    { <<>>,
      << <<"v1", "v1">> >>, << <<"v1", "n1">> >>, << <<"v1", "#5">> >>,
      << <<"v2", "v1">> >>, << <<"v2", "n1">> >>,
      << <<"zz", "n1">> >>, << <<"v1", "n1">>, <<"zz", "n1">> >>,
      << <<"v1", "n1">>, <<"v1", "v1">> >> }

Resp(kind, long, pairs, items) ==
    [kind |-> kind, long |-> long, pairs |-> pairs, items |-> items]

\* llm.invoke returned a text: not JSON, a JSON object (of more than
\* max_output_tokens words or not), or a JSON array.
TextResponses ==
    {Resp("garbage", FALSE, <<>>, <<>>)}
    \cup {Resp("object", FALSE, b, <<>>) : b \in ObjectBodies}
    \cup {Resp("object", TRUE, << <<"v1", "n1">> >>, <<>>)}
    \cup {Resp("array", FALSE, <<>>, it) : it \in {<<>>, <<"v1">>}}

\* llm.invoke raised (endpoint unreachable, timeout).
FailedResponses == {Resp("exception", FALSE, <<>>, <<>>)}

Responses == TextResponses \cup FailedResponses

\* An oracle may answer anything ("any"), or answer every per-variable prompt
\* with the same single-key map: the rename of that variable to a new name
\* ("truth"), or a map whose only key is no variable of the function
\* ("hallucinating").
OracleModes == {"any", "truth", "hallucinating"}

NewName(var_name) == IF var_name = "v1" THEN "n1" ELSE "n2"

OracleAnswers(var_name) ==
    IF oracle = "truth" THEN {Resp("object", FALSE, << <<var_name, NewName(var_name)>> >>, <<>>)}
    ELSE IF oracle = "hallucinating" THEN {Resp("object", FALSE, << <<"zz", "n1">> >>, <<>>)}
    ELSE Responses

-----------------------------------------------------------------------------
(* RedFlagGuard.check_red_flags and SequentialVoting._get_vote.            *)

Reason(tag, arg) == [tag |-> tag, arg |-> arg]

Contains(resp, key) ==
    IF resp.kind = "object" THEN DictHas(JsonLoadsObject(resp.pairs), key)
    ELSE \E i \in 1..Len(resp.items) : resp.items[i] = key

IsEmptyValue(resp) ==
    IF resp.kind = "object" THEN resp.pairs = <<>> ELSE resp.items = <<>>

check_red_flags_NoRequiredKeys(resp, required_keys) ==
    IF resp.long THEN [ok |-> FALSE, reason |-> Reason("response_too_long", "")]
    ELSE IF IsEmptyValue(resp) THEN [ok |-> FALSE, reason |-> Reason("empty_response", "")]
    ELSE [ok |-> TRUE, reason |-> Reason("valid", "")]

check_red_flags(resp, required_keys) ==
    IF resp.long THEN [ok |-> FALSE, reason |-> Reason("response_too_long", "")]
    ELSE IF \E i \in 1..Len(required_keys) : ~Contains(resp, required_keys[i])
    THEN [ok |-> FALSE,
          reason |-> Reason("missing_keys",
                            required_keys[CHOOSE i \in 1..Len(required_keys) :
                                              ~Contains(resp, required_keys[i])])]
    ELSE IF IsEmptyValue(resp) THEN [ok |-> FALSE, reason |-> Reason("empty_response", "")]
    ELSE [ok |-> TRUE, reason |-> Reason("valid", "")]

SeqToSet(s) == {s[i] : i \in 1..Len(s)}

\* The first key of the parsed dict, in its order, that is no existing variable.
FirstHallucinated(d, existing_variables) ==
    LET bad == {i \in 1..Len(d) : d[i][1] \notin SeqToSet(existing_variables)}
    IN  IF bad = {} THEN 0 ELSE CHOOSE i \in bad : \A j \in bad : i <= j

CleanRenames_KeepIdentityOnly(d) == SelectSeq(d, LAMBDA p : p[1] = p[2])

\* A slip in lines 403-408: nothing is filtered.
CleanRenames_Unfiltered(d) == d

\* Laziness check: drop identity mappings and non-string values.
CleanRenames(d) == SelectSeq(d, LAMBDA p : p[1] # p[2] /\ IsStr(p[2]))

Trace(reward, next_state, reason) ==
    <<[reward |-> reward, next_state |-> next_state, reason |-> reason]>>

Vote(vote, is_valid, reason, logged) ==
    [vote |-> vote, is_valid |-> is_valid, reason |-> reason, logged |-> logged]

\* A slip in the except branch of _get_vote: the failed call is returned as
\* a valid vote for the empty map.
GetVote_FailureIsValid(resp, existing_variables, required_keys) ==
    IF resp.kind = "exception"
    THEN Vote(<<>>, TRUE, Reason("exception", "oracle failed"), <<>>)
    ELSE Vote(<<>>, FALSE, Reason("json_parse_error", ""),
              Trace(RewardRedFlag, "TERMINAL_FAILURE", Reason("json_parse_error", "")))

\* What one _get_vote call returns, with the trace record it logs (<<>> when
\* it logs none).
GetVote(resp, existing_variables, required_keys) ==
    IF resp.kind = "exception"
    THEN Vote(<<>>, FALSE, Reason("exception", "oracle failed"), <<>>)
    ELSE IF resp.kind = "garbage"
    THEN Vote(<<>>, FALSE, Reason("json_parse_error", ""),
              Trace(RewardRedFlag, "TERMINAL_FAILURE", Reason("json_parse_error", "")))
    ELSE
      LET flags == check_red_flags(resp, required_keys)
          parsed == JsonLoadsObject(resp.pairs)
          h == IF resp.kind = "object"
               THEN FirstHallucinated(parsed, existing_variables) ELSE 0
      IN  IF ~flags.ok
          THEN Vote(<<>>, FALSE, flags.reason,
                    Trace(RewardRedFlag, "TERMINAL_FAILURE", flags.reason))
          ELSE IF h # 0
          THEN Vote(<<>>, FALSE, Reason("hallucinated_variable", parsed[h][1]),
                    Trace(RewardRedFlag, "TERMINAL_FAILURE",
                          Reason("hallucinated_variable", parsed[h][1])))
          ELSE IF resp.kind = "array"
          \* parsed_data.items() raises on a list: the except branch, no log
          THEN Vote(<<>>, FALSE, Reason("exception", "no attribute items"), <<>>)
          ELSE Vote(CleanRenames(parsed), TRUE, Reason("valid", ""),
                    Trace(RewardValid, "VOTING_POOL", Reason("", "")))

-----------------------------------------------------------------------------
(* SequentialVoting.do_voting, one loop iteration per step, inside         *)
(* true_maker_rename's loop over the variables of a function, inside       *)
(* _run_renaming_stage's loop over the functions of a module.              *)

NoSample == [called |-> FALSE, is_valid |-> FALSE, reason |-> Reason("", ""), logged |-> <<>>,
             answer |-> <<>>]

NoReturn == [via |-> "none", winner |-> <<>>, is_none |-> TRUE, samples |-> 0,
             valid |-> 0, counts |-> <<>>]

CountOf(counts, key) ==
    IF \E i \in 1..Len(counts) : counts[i].key = key
    THEN counts[CHOOSE i \in 1..Len(counts) : counts[i].key = key].n
    ELSE 0

\* vote_counts[vote_key] += 1 on a defaultdict(int)
Increment(counts, key) ==
    IF \E i \in 1..Len(counts) : counts[i].key = key
    THEN [i \in 1..Len(counts) |->
             IF counts[i].key = key THEN [key |-> key, n |-> counts[i].n + 1] ELSE counts[i]]
    ELSE Append(counts, [key |-> key, n |-> 1])

MaxCount(counts) == CHOOSE m \in {counts[i].n : i \in 1..Len(counts)} :
                        \A i \in 1..Len(counts) : counts[i].n <= m

\* second_max of lines 305-309: the largest count strictly below max_count, 0 if none
SecondMax(counts) ==
    LET below == {counts[i].n : i \in 1..Len(counts)} \ {MaxCount(counts)}
    IN  IF below = {} THEN 0 ELSE CHOOSE m \in below : \A x \in below : x <= m

\* Winner condition of line 312
HasWinner(counts, kk) == MaxCount(counts) >= SecondMax(counts) + kk

\* max(vote_counts, key=vote_counts.get): the first key, in insertion order,
\* with the largest count
ModeKey(counts) ==
    counts[CHOOSE i \in 1..Len(counts) :
              /\ counts[i].n = MaxCount(counts)
              /\ \A j \in 1..(i - 1) : counts[j].n < MaxCount(counts)].key

\* A slip in lines 97-100: the entry is stored under the new name.
RenameCommit_KeyedByNew(final, var_name, renames) ==
    IF renames # <<>> /\ DictHas(renames, var_name) /\ DictGet(renames, var_name) # var_name
    THEN DictSet(final, DictGet(renames, var_name), var_name)
    ELSE final

\* Lines 97-105 of true_maker_rename: what one finished vote adds to final_renames
RenameCommit(final, var_name, renames) ==
    IF renames # <<>> /\ DictHas(renames, var_name) /\ DictGet(renames, var_name) # var_name
    THEN DictSet(final, var_name, DictGet(renames, var_name))
    ELSE final

RenameReport(var_name, renames) ==
    IF renames # <<>> /\ DictHas(renames, var_name)
    THEN IF DictGet(renames, var_name) # var_name THEN "renamed" ELSE "unchanged"
    ELSE "failed to converge"

\* A slip in lines 291-292: an entry that is there already is kept.
MergeRenames_FirstWins(all, final) ==
    DictUpdate(all, SelectSeq(final, LAMBDA e : ~DictHas(all, e[1])))

\* Lines 291-292 of _run_renaming_stage
MergeRenames(all, final) == IF final # <<>> THEN DictUpdate(all, final) ELSE all

CurVars == module_vars[fi]

\* do_voting returned `ret`: the rest of true_maker_rename's loop body, and
\* when that was the function's last variable, the rest of
\* _run_renaming_stage's loop body.
AfterVote(ret) ==
    LET renames == ret.winner
        var_name == CurVars[vi]
        final == RenameCommit(final_renames, var_name, renames)
    IN  /\ last_return' = ret
        /\ report' = RenameReport(var_name, renames)
        /\ vote_counts' = <<>>
        /\ sample_count' = 0
        /\ valid_count' = 0
        /\ IF vi < Len(CurVars)
           THEN /\ vi' = vi + 1
                /\ final_renames' = final
                /\ pc' = "vote"
                /\ UNCHANGED <<fi, all_renames>>
           ELSE /\ vi' = 1
                /\ final_renames' = final
                /\ all_renames' = MergeRenames(all_renames, final)
                /\ fi' = fi + 1
                /\ pc' = "func"

\* A slip in lines 261-263: the override is never set.
current_temp_NeverDecays(count) == "configured"

\* lines 261-263 of do_voting: the temperature_override of the next sample,
\* None ("configured") or 0.0 ("zero")
current_temp(count) == IF count > TempDecayThreshold THEN "zero" ELSE "configured"

\* One iteration of the while loop of do_voting (lines 259-316).
VoteSample ==
    /\ pc = "vote"
    /\ sample_count < max_samples
    /\ \E resp \in OracleAnswers(CurVars[vi]) :
         LET temp == current_temp(sample_count)
             got == GetVote(resp, CurVars, <<CurVars[vi]>>)
             counts == Increment(vote_counts, JsonDumpsSorted(got.vote))
         IN  /\ last_temp' = temp
             /\ last_sample' = [called |-> TRUE, is_valid |-> got.is_valid,
                                reason |-> got.reason, logged |-> got.logged,
                                answer |-> resp]
             /\ IF ~got.is_valid
                THEN /\ sample_count' = sample_count + 1
                     /\ last_return' = NoReturn
                     /\ report' = ""
                     /\ UNCHANGED <<valid_count, vote_counts, pc, fi, vi,
                                    final_renames, all_renames>>
                ELSE IF HasWinner(counts, k)
                THEN AfterVote([via |-> "margin", winner |-> JsonLoadsKey(ModeKey(counts)),
                                is_none |-> FALSE, samples |-> sample_count + 1,
                                valid |-> valid_count + 1, counts |-> counts])
                ELSE /\ sample_count' = sample_count + 1
                     /\ valid_count' = valid_count + 1
                     /\ vote_counts' = counts
                     /\ last_return' = NoReturn
                     /\ report' = ""
                     /\ UNCHANGED <<pc, fi, vi, final_renames, all_renames>>
    /\ UNCHANGED <<module_vars, k, oracle, confirmed_renames>>
    /\ UNCHANGED <<pipeVars, textVars, rewriteVars, libVars, runVars, judgeVars, configVars, restVars>>

\* The loop ended at the ceiling (lines 318-326).
VoteCeiling ==
    /\ pc = "vote"
    /\ sample_count >= max_samples
    /\ IF vote_counts # <<>>
       THEN AfterVote([via |-> "ceiling", winner |-> JsonLoadsKey(ModeKey(vote_counts)),
                       is_none |-> FALSE, samples |-> sample_count,
                       valid |-> valid_count, counts |-> vote_counts])
       ELSE AfterVote([via |-> "ceiling", winner |-> <<>>, is_none |-> TRUE,
                       samples |-> sample_count, valid |-> valid_count,
                       counts |-> vote_counts])
    /\ UNCHANGED <<module_vars, k, oracle, confirmed_renames, last_temp, last_sample>>
    /\ UNCHANGED <<pipeVars, textVars, rewriteVars, libVars, runVars, judgeVars, configVars, restVars>>

\* _run_renaming_stage picks the next function and calls true_maker_rename
\* (lines 43-47 of maker_nodes.py: a function without variables returns at once).
StartFunction ==
    /\ pc = "func"
    /\ fi <= Len(module_vars)
    /\ IF Len(CurVars) = 0
       THEN /\ fi' = fi + 1
            /\ UNCHANGED pc
       ELSE /\ pc' = "vote"
            /\ UNCHANGED fi
    /\ vi' = 1
    /\ final_renames' = <<>>
    /\ vote_counts' = <<>>
    /\ sample_count' = 0
    /\ valid_count' = 0
    /\ UNCHANGED <<module_vars, k, oracle, last_temp, last_sample, last_return, report,
                   all_renames, confirmed_renames>>
    /\ UNCHANGED <<pipeVars, textVars, rewriteVars, libVars, runVars, judgeVars, configVars, restVars>>

\* state["confirmed_renames"] = all_renames (line 301)
FinishStage ==
    /\ pc = "func"
    /\ fi > Len(module_vars)
    /\ confirmed_renames' = all_renames
    /\ pc' = "done"
    /\ UNCHANGED <<module_vars, k, oracle, fi, vi, vote_counts, sample_count, valid_count,
                   last_temp, last_sample, last_return, report, final_renames,
                   all_renames>>
    /\ UNCHANGED <<pipeVars, textVars, rewriteVars, libVars, runVars, judgeVars, configVars, restVars>>

ModuleInputs == { << <<"v1", "v2">> >>, << <<"v1">>, <<>>, <<"v1">> >> }

InitVote ==
    /\ module_vars \in ModuleInputs
    /\ k \in 2..MaxK
    /\ oracle \in OracleModes
    /\ pc = "func"
    /\ fi = 1
    /\ vi = 1
    /\ vote_counts = <<>>
    /\ sample_count = 0
    /\ valid_count = 0
    /\ last_temp = "configured"
    /\ last_sample = NoSample
    /\ last_return = NoReturn
    /\ report = ""
    /\ final_renames = <<>>
    /\ all_renames = <<>>
    /\ confirmed_renames = <<>>
    /\ IdlePipe /\ IdleText /\ IdleRewrite /\ IdleLib
    /\ IdleRun /\ IdleJudge /\ IdleConfig /\ IdleRest

NextVote == VoteSample \/ VoteCeiling \/ StartFunction \/ FinishStage

SpecVote == InitVote /\ [][NextVote]_vars

-----------------------------------------------------------------------------
(* RefactoryPipeline.process_module, one worker per module, and the user's *)
(* pause and stop controls.  A worker is at a stage boundary ("check" the  *)
(* stop event, then "wait" on the pause event) or at "work" in a stage:    *)
(* 0 inspector and state set-up, 1 type recovery, 2 renaming, 3 rewrite,   *)
(* 4 emission.  Every oracle call of a stage is one step.                  *)

Workers == 1..NumWorkers

\* What the oracle answers inside the pipeline: a rename of the variable, or
\* a text that is not JSON.
PipeResponses == {Resp("object", FALSE, << <<"v1", "n1">> >>, <<>>),
                  Resp("garbage", FALSE, <<>>, <<>>)}

PipeVariables == <<"v1">>

IdleVars == UNCHANGED <<voteVars, textVars, rewriteVars, libVars, runVars, judgeVars, configVars, restVars>>

\* `if stop_event and stop_event.is_set(): return {}`
CheckStop(w) ==
    /\ worker[w].phase = "check"
    /\ worker' = [worker EXCEPT ![w] =
                    IF stop_event
                    THEN [@ EXCEPT !.phase = "returned", !.result = "cancelled"]
                    ELSE [@ EXCEPT !.phase = "wait"]]
    /\ UNCHANGED <<stop_event, pause_event>>
    /\ IdleVars

\* `if pause_event: pause_event.wait()`: returns once the event is set
WaitPause(w) ==
    /\ worker[w].phase = "wait"
    /\ pause_event
    /\ worker' = [worker EXCEPT ![w].phase = "work"]
    /\ UNCHANGED <<stop_event, pause_event>>
    /\ IdleVars

NextStage_SkipsOne(rec) ==
    [rec EXCEPT !.phase = "check", !.stage = rec.stage + 2, !.attempt = 0,
                !.sample_count = 0, !.vote_counts = <<>>]

NextStage(rec) ==
    [rec EXCEPT !.phase = "check", !.stage = rec.stage + 1, !.attempt = 0,
                !.sample_count = 0, !.vote_counts = <<>>]

\* Stage 0.5 and the initial state (lines 153-186)
Inspect(w) ==
    /\ worker[w].phase = "work"
    /\ worker[w].stage = 0
    /\ worker' = [worker EXCEPT ![w] = NextStage(@)]
    /\ UNCHANGED <<stop_event, pause_event>>
    /\ IdleVars

\* One attempt of _run_stage (lines 241-254): the agent's oracle call, the
\* validator, and the break when the stage has results.
StageAttempt(w, n) ==
    /\ worker[w].phase = "work"
    /\ worker[w].stage = n
    /\ \E has_results \in BOOLEAN :
         worker' = [worker EXCEPT ![w] =
                      IF has_results \/ @.attempt + 1 >= max_attempts
                      THEN NextStage(@)
                      ELSE [@ EXCEPT !.attempt = @ + 1]]
    /\ UNCHANGED <<stop_event, pause_event>>
    /\ IdleVars

TypeRecoveryAttempt(w) == StageAttempt(w, 1)

RefactoringAttempt(w) == StageAttempt(w, 3)

\* One sample of the vote of the rename stage (do_voting as above, for the
\* worker's module).
RenameSample(w) ==
    /\ worker[w].phase = "work"
    /\ worker[w].stage = 2
    /\ worker[w].sample_count < max_samples
    /\ \E resp \in PipeResponses :
         LET got == GetVote(resp, PipeVariables, <<PipeVariables[1]>>)
             counts == Increment(worker[w].vote_counts, JsonDumpsSorted(got.vote))
         IN  worker' = [worker EXCEPT ![w] =
                          IF ~got.is_valid
                          THEN [@ EXCEPT !.sample_count = @ + 1]
                          ELSE IF HasWinner(counts, DefaultK)
                          THEN NextStage(@)
                          ELSE [@ EXCEPT !.sample_count = @ + 1,
                                         !.vote_counts = counts]]
    /\ UNCHANGED <<stop_event, pause_event>>
    /\ IdleVars

RenameCeiling(w) ==
    /\ worker[w].phase = "work"
    /\ worker[w].stage = 2
    /\ worker[w].sample_count >= max_samples
    /\ worker' = [worker EXCEPT ![w] = NextStage(@)]
    /\ UNCHANGED <<stop_event, pause_event>>
    /\ IdleVars

\* Stage 4 and the return of the module's files (lines 221-235)
Emit(w) ==
    /\ worker[w].phase = "work"
    /\ worker[w].stage = 4
    /\ worker' = [worker EXCEPT ![w] = [@ EXCEPT !.phase = "returned", !.result = "files"]]
    /\ UNCHANGED <<stop_event, pause_event>>
    /\ IdleVars

\* AnalysisManager.toggle_pause / launcher.toggle_pause
TogglePause ==
    /\ pause_event' = ~pause_event
    /\ UNCHANGED <<stop_event, worker>>
    /\ IdleVars

\* AnalysisManager.stop / launcher.stop_execution.  stopped_in_wait notes,
\* for the record, the workers that were blocked in pause_event.wait() when
\* the stop event was set; no code reads it.
Stop ==
    /\ stop_event' = TRUE
    /\ pause_event' = TRUE
    /\ worker' = [w \in DOMAIN worker |->
                    [worker[w] EXCEPT !.stopped_in_wait =
                                         @ \/ (worker[w].phase = "wait" /\ ~pause_event)]]
    /\ IdleVars

OracleCall(w) == TypeRecoveryAttempt(w) \/ RenameSample(w) \/ RefactoringAttempt(w)

WorkerStep(w) ==
    \/ CheckStop(w) \/ WaitPause(w) \/ Inspect(w) \/ TypeRecoveryAttempt(w)
    \/ RenameSample(w) \/ RenameCeiling(w) \/ RefactoringAttempt(w) \/ Emit(w)

IdleVote ==
    /\ module_vars = << >>
    /\ k = DefaultK
    /\ oracle = "any"
    /\ pc = "done"
    /\ fi = 1
    /\ vi = 1
    /\ vote_counts = <<>>
    /\ sample_count = 0
    /\ valid_count = 0
    /\ last_temp = "configured"
    /\ last_sample = NoSample
    /\ last_return = NoReturn
    /\ report = ""
    /\ final_renames = <<>>
    /\ all_renames = <<>>
    /\ confirmed_renames = <<>>

InitPipe ==
    /\ IdleVote /\ IdlePipe /\ IdleText /\ IdleRewrite /\ IdleLib
    /\ IdleRun /\ IdleJudge /\ IdleConfig /\ IdleRest

NextPipe == TogglePause \/ Stop \/ \E w \in Workers : WorkerStep(w)

SpecPipe == InitPipe /\ [][NextPipe]_vars

\* Threads are scheduled: a worker that can take a step eventually takes one.
\* Nothing obliges the user to press a button.
FairPipe == SpecPipe /\ \A w \in Workers : WF_vars(WorkerStep(w))

\* C2: after the cancellation signal is asserted no worker issues a new
\* oracle call; in particular a vote in progress takes no further sample.
\* Stated for the vote: a worker that has already sampled in its vote takes
\* no further sample once the signal is set.
C2_NoSampleAfterCancel ==
    [][\A w \in Workers :
          (stop_event /\ worker[w].stage = 2 /\ worker[w].sample_count >= 1)
              => ~RenameSample(w)]_vars

\* C3: once cancellation has been asserted every worker eventually returns,
\* for every interleaving of pause toggles, stop and worker steps.
C3_CancelledWorkersReturn ==
    [](stop_event => <>(\A w \in Workers : worker[w].phase = "returned"))

\* C17: within one module's worker the stages run in strict order, whatever
\* the other workers do: the stage index only ever moves to the next one, it
\* moves only when the worker is at work in the current stage, and work on a
\* stage begins only from the wait at that stage's boundary.
C17_StagesInOrder ==
    [][\A w \in Workers :
          /\ \/ worker'[w].stage = worker[w].stage
             \/ /\ worker'[w].stage = worker[w].stage + 1
                /\ worker[w].phase = "work"
                /\ worker'[w].phase = "check"
          /\ (worker'[w].phase = "work" /\ worker[w].phase # "work")
                => (worker[w].phase = "wait" /\ worker'[w].stage = worker[w].stage)]_vars

\* One worker emits while the other is still in type recovery.
C17_Witness ==
    \E w, u \in Workers :
        /\ worker[w].phase = "returned" /\ worker[w].result = "files" /\ worker[w].stage = 4
        /\ worker[u].phase = "work" /\ worker[u].stage = 1

\* C18: while the pause signal is asserted (pause_event cleared) a vote in
\* progress issues no oracle sample until it is released.
C18_NoSampleWhilePaused ==
    [][\A w \in Workers :
          (~pause_event /\ worker[w].stage = 2 /\ worker[w].sample_count >= 1)
              => ~RenameSample(w)]_vars


-----------------------------------------------------------------------------
(* Claims about the voter and the rename stage.                            *)

ModuleVariables == UNION {SeqToSet(module_vars[i]) : i \in 1..Len(module_vars)}

WinnerCount(ret) == CountOf(ret.counts, JsonDumpsSorted(ret.winner))

\* C1: whenever do_voting returns a winner before the sample ceiling is
\* reached, the winner's count exceeds the count of every other candidate by
\* at least k.
C1_WinnerLeadsByK ==
    (last_return.via = "margin" /\ last_return.samples < max_samples) =>
        \A i \in 1..Len(last_return.counts) :
            last_return.counts[i].key # JsonDumpsSorted(last_return.winner) =>
                WinnerCount(last_return) - last_return.counts[i].n >= k

\* C4: every oracle invocation made by the voter produces exactly one trace
\* record, with reward +0.1 if the sample was accepted and -0.5 otherwise,
\* the rejection reason being carried in the record.
C4_OneTracePerInvocation ==
    last_sample.called =>
        /\ Len(last_sample.logged) = 1
        /\ last_sample.is_valid => last_sample.logged[1].reward = RewardValid
        /\ ~last_sample.is_valid =>
              /\ last_sample.logged[1].reward = RewardRedFlag
              /\ last_sample.logged[1].reason = last_sample.reason

RenamesSound(renames) ==
    \A i \in 1..Len(renames) :
        /\ renames[i][1] \in ModuleVariables
        /\ renames[i][1] # renames[i][2]

\* C6: every entry old -> new of confirmed_renames after the rename stage
\* (and of the maps it is built from) has old among the variables of a
\* member function and old different from new, whatever the oracle returns.
C6_RenameSoundness ==
    /\ RenamesSound(confirmed_renames)
    /\ RenamesSound(all_renames)
    /\ RenamesSound(final_renames)

C6_Witness ==
    /\ pc = "done"
    /\ confirmed_renames = << <<"v1", "n1">>, <<"v2", "v1">> >>

\* C7: a vote takes at most 100 samples; when the ceiling is reached without
\* a margin-k winner, do_voting returns the most-voted candidate and the
\* worker sees the result as unconverged.
C7_CeilingMarkedUnconverged ==
    /\ sample_count <= max_samples
    /\ last_return.samples <= max_samples
    /\ (last_return.via = "ceiling" /\ ~last_return.is_none) =>
          /\ WinnerCount(last_return) = MaxCount(last_return.counts)
          /\ ~HasWinner(last_return.counts, k) => report = "failed to converge"

TruthMap(variables) == [i \in 1..Len(variables) |-> <<variables[i], NewName(variables[i])>>]

\* C12: with an oracle that answers each per-variable prompt with the
\* single-key map renaming that variable to a new name, true_maker_rename
\* returns final_renames equal to exactly that mapping, one entry for every
\* variable of the function.
C12_GroundTruthRecovered ==
    (oracle = "truth" /\ pc \in {"func", "done"} /\ fi > 1)
        => final_renames = TruthMap(module_vars[fi - 1])

C12_Witness ==
    /\ oracle = "truth"
    /\ pc = "func"
    /\ fi = 2
    /\ final_renames = << <<"v1", "n1">>, <<"v2", "n2">> >>

\* What the hallucination scenario has in common in both readings: no
\* rename is ever recorded, and a vote that returns has run to the ceiling
\* without a winner.
HallucinationRejected ==
    /\ final_renames = <<>> /\ all_renames = <<>> /\ confirmed_renames = <<>>
    /\ last_return.via # "none"
         => /\ last_return.via = "ceiling"
            /\ last_return.samples = max_samples
            /\ last_return.is_none
            /\ report = "failed to converge"

LoggedRejection(tag) ==
    last_sample.called
        => /\ Len(last_sample.logged) = 1
           /\ last_sample.logged[1].reward = RewardRedFlag
           /\ last_sample.logged[1].reason.tag = tag

\* C13: when the oracle always answers a per-variable rename vote with a map
\* whose only key is no variable of the function, the vote runs to the hard
\* ceiling, nothing is added to confirmed_renames, and every sample is logged
\* with reward -0.5 and reason "hallucinated_variable: <that key>".
C13_HallucinationLogged ==
    oracle = "hallucinating"
        => /\ HallucinationRejected
           /\ LoggedRejection("hallucinated_variable")
           /\ last_sample.called => last_sample.logged[1].reason.arg = "zz"

\* C13 as the code has it: the same, but the logged reason is
\* "missing_keys: [<the variable voted on>]", because the guard's
\* required-key check rejects the sample before the hallucination check.
C13_MissingKeyLogged ==
    oracle = "hallucinating"
        => /\ HallucinationRejected
           /\ LoggedRejection("missing_keys")
           /\ (pc = "vote" /\ sample_count >= 1)
                 => last_sample.logged[1].reason.arg = CurVars[vi]

C13_Witness ==
    /\ oracle = "hallucinating"
    /\ last_sample.called
    /\ last_return.via = "ceiling"
    /\ last_return.samples = max_samples

\* C24: a failed oracle invocation during a vote does not leave do_voting:
\* it is one rejected sample, which advances the sample counter towards the
\* ceiling, changes no vote count and no valid count, and the loop goes on.
C24_OracleFailureIsRejectedSample ==
    [][(/\ pc = "vote" /\ sample_count < max_samples
        /\ last_sample'.called
        /\ last_sample'.reason = Reason("exception", "oracle failed")
        /\ sample_count' # sample_count) =>
           /\ ~last_sample'.is_valid
           /\ sample_count' = sample_count + 1
           /\ vote_counts' = vote_counts
           /\ valid_count' = valid_count
           /\ last_return' = NoReturn
           /\ pc' = "vote" /\ fi' = fi /\ vi' = vi]_vars

\* the oracle failed in the middle of a vote that already holds a vote
C24_Witness ==
    /\ pc = "vote"
    /\ last_sample.called
    /\ last_sample.reason = Reason("exception", "oracle failed")
    /\ sample_count >= 2
    /\ vote_counts # <<>>

-----------------------------------------------------------------------------
(* _safe_replace (refactory_agents.py).  Python's re.sub scans the text    *)
(* from left to right; at each position it tries the alternatives of       *)
(* (skip)|(?P<MATCH>target) in order, and where none matches it copies one *)
(* character.  The operators below give, for a position i of the text, the *)
(* position just after the match of one alternative, or 0 for no match.    *)

MaxPieces == 4

WordChars == {"a", "b", "c", "i", "n", "t", "T"}

WhiteChars == {" ", "\n"}

At(text, i) == IF i >= 1 /\ i <= Len(text) THEN text[i] ELSE ""

\* \b: exactly one of the two neighbours is a word character
WordBoundary(text, i) == (At(text, i - 1) \in WordChars) # (At(text, i) \in WordChars)

\* the literal text `lit` at position i
LiteralEnd(text, i, lit) ==
    IF /\ i + Len(lit) - 1 <= Len(text)
       /\ \A j \in 1..Len(lit) : text[i + j - 1] = lit[j]
    THEN i + Len(lit) ELSE 0

\* [\s\S]*?\*/ : the first "*/" at or after position i
RECURSIVE CommentClose(_, _)
CommentClose(text, i) ==
    IF i + 1 > Len(text) THEN 0
    ELSE IF text[i] = "*" /\ text[i + 1] = "/" THEN i + 2
    ELSE CommentClose(text, i + 1)

\* pat_comment_multi  /\*[\s\S]*?\*/
MatchCommentMulti(text, i) ==
    IF At(text, i) = "/" /\ At(text, i + 1) = "*" THEN CommentClose(text, i + 2) ELSE 0

\* .* : "." matches every character but the newline
RECURSIVE LineEnd(_, _)
LineEnd(text, i) ==
    IF i > Len(text) \/ text[i] = "\n" THEN i ELSE LineEnd(text, i + 1)

\* pat_comment_single  //.*
MatchCommentSingle(text, i) ==
    IF At(text, i) = "/" /\ At(text, i + 1) = "/" THEN LineEnd(text, i + 2) ELSE 0

\* (?:\\.|[^q\\])*q from position i: a backslash takes the next character with
\* it unless that is a newline (or the end), any other character but q is
\* taken alone, newline included
RECURSIVE QuotedClose(_, _, _)
QuotedClose(text, i, q) ==
    IF i > Len(text) THEN 0
    ELSE IF text[i] = q THEN i + 1
    ELSE IF text[i] = "\\"
         THEN IF i + 1 <= Len(text) /\ text[i + 1] # "\n"
              THEN QuotedClose(text, i + 2, q) ELSE 0
    ELSE QuotedClose(text, i + 1, q)

\* pat_string and pat_char
MatchQuoted(text, i, q) == IF At(text, i) = q THEN QuotedClose(text, i + 1, q) ELSE 0

\* pat_skip, its alternatives in order
MatchSkip(text, i) ==
    IF MatchCommentMulti(text, i) > 0 THEN MatchCommentMulti(text, i)
    ELSE IF MatchCommentSingle(text, i) > 0 THEN MatchCommentSingle(text, i)
    ELSE IF MatchQuoted(text, i, "\"") > 0 THEN MatchQuoted(text, i, "\"")
    ELSE MatchQuoted(text, i, "'")

\* \s* and \** : the first position at or after i whose character is not in cs
RECURSIVE SkipChars(_, _, _)
SkipChars(text, i, cs) ==
    IF i <= Len(text) /\ text[i] \in cs THEN SkipChars(text, i + 1, cs) ELSE i

\* pattern_target: \b target \b, or \b target \s* \** \s* context_next \b
MatchTarget(text, i, target, context_next) ==
    LET t == LiteralEnd(text, i, target)
        c == LiteralEnd(text, SkipChars(text, SkipChars(text, SkipChars(text, t, WhiteChars),
                                                        {"*"}), WhiteChars),
                        context_next)
        e == IF context_next = <<>> THEN t ELSE IF t = 0 THEN 0 ELSE c
    IN  IF e > 0 /\ WordBoundary(text, i) /\ WordBoundary(text, e) THEN e ELSE 0

\* The MATCH matches of regex.sub, as <<from, to>> pairs (to exclusive).
RECURSIVE Matches(_, _, _, _)
Matches(text, i, target, context_next) ==
    IF i > Len(text) THEN <<>>
    ELSE IF MatchSkip(text, i) > 0
         THEN Matches(text, MatchSkip(text, i), target, context_next)
    ELSE IF MatchTarget(text, i, target, context_next) > 0
         THEN << <<i, MatchTarget(text, i, target, context_next)>> >>
              \o Matches(text, MatchTarget(text, i, target, context_next), target, context_next)
    ELSE Matches(text, i + 1, target, context_next)

\* The text with every match replaced by replacement_text.
RECURSIVE Substitute(_, _, _, _)
Substitute(text, i, found, replacement_text) ==
    IF found = <<>> THEN SubSeq(text, i, Len(text))
    ELSE SubSeq(text, i, found[1][1] - 1) \o replacement_text
         \o Substitute(text, found[1][2], Tail(found), replacement_text)

ReplacementText(replacement, context_next) ==
    IF context_next = <<>> THEN replacement ELSE replacement \o <<" ">> \o context_next

_safe_replace(text, target, replacement, context_next) ==
    Substitute(text, 1, Matches(text, 1, target, context_next),
               ReplacementText(replacement, context_next))

Edit(target, replacement, context_next) ==
    [target |-> target, replacement |-> replacement, context_next |-> context_next]

\* `_safe_replace(code, "int", var_type, context_next=var)` (line 230)
TypeEdit(var, var_type) == Edit(<<"i", "n", "t">>, var_type, var)

\* `_safe_replace(code, old_name, new_name)` (line 234)
RenameEdit(old_name, new_name) == Edit(old_name, new_name, <<>>)

ApplyEdit(text, e) == _safe_replace(text, e.target, e.replacement, e.context_next)

\* The two loops of refactoring_agent over one function's code (lines 227-234).
RECURSIVE ApplyEdits(_, _)
ApplyEdits(text, es) ==
    IF es = <<>> THEN text ELSE ApplyEdits(ApplyEdit(text, Head(es)), Tail(es))

\* ---- the inputs
Pieces == { <<"a">>, <<"i", "n", "t">>, <<"\"">>, <<"'">>, <<"\\">>, <<"\\", "\n">>,
            <<"\n">>, <<"/">>, <<"*">> }

RECURSIVE Flatten(_)
Flatten(ps) == IF ps = <<>> THEN <<>> ELSE Head(ps) \o Flatten(Tail(ps))

Texts(most) == UNION { { Flatten(ps) : ps \in [1..n -> Pieces] } : n \in 0..most }

EditLists == { << RenameEdit(<<"a">>, <<"b">>) >>,
               << TypeEdit(<<"a">>, <<"T">>) >>,
               << TypeEdit(<<"a">>, <<"T">>), RenameEdit(<<"a">>, <<"b">>) >>,
               << RenameEdit(<<"b">>, <<"c">>), RenameEdit(<<"a">>, <<"b">>) >> }

MaxPasses == 2

\* One call of _safe_replace.
SafeReplaceCall ==
    /\ passes < MaxPasses
    /\ edit_idx <= Len(edits)
    /\ code_before' = code
    /\ code' = ApplyEdit(code, edits[edit_idx])
    /\ edit_idx' = edit_idx + 1
    /\ UNCHANGED <<edits, passes, first_pass_code>>
    /\ UNCHANGED <<voteVars, pipeVars, rewriteVars, libVars, runVars, judgeVars, configVars, restVars>>

\* The list has been applied once more.
EndPass ==
    /\ passes < MaxPasses
    /\ edit_idx > Len(edits)
    /\ passes' = passes + 1
    /\ first_pass_code' = IF passes = 0 THEN code ELSE first_pass_code
    /\ edit_idx' = 1
    /\ UNCHANGED <<edits, code_before, code>>
    /\ UNCHANGED <<voteVars, pipeVars, rewriteVars, libVars, runVars, judgeVars, configVars, restVars>>

InitReplace ==
    /\ edits \in EditLists
    /\ code \in Texts(MaxPieces)
    /\ edit_idx = 1
    /\ passes = 0
    /\ code_before = <<>>
    /\ first_pass_code = <<>>
    /\ IdleVote /\ IdlePipe /\ IdleRewrite /\ IdleLib
    /\ IdleRun /\ IdleJudge /\ IdleConfig /\ IdleRest

NextReplace == SafeReplaceCall \/ EndPass

SpecReplace == InitReplace /\ [][NextReplace]_vars

\* ---- what C takes to be inside a literal or a comment
\* A backslash takes the next character with it, the newline of a line splice
\* included; a string or character literal ends on its line.
RECURSIVE CQuotedClose(_, _, _)
CQuotedClose(text, i, q) ==
    IF i > Len(text) \/ text[i] = "\n" THEN 0
    ELSE IF text[i] = q THEN i + 1
    ELSE IF text[i] = "\\" THEN IF i + 1 <= Len(text) THEN CQuotedClose(text, i + 2, q) ELSE 0
    ELSE CQuotedClose(text, i + 1, q)

\* A line comment runs to the end of the line, spliced lines included.
RECURSIVE CLineEnd(_, _)
CLineEnd(text, i) ==
    IF i > Len(text) THEN i
    ELSE IF text[i] = "\\" /\ At(text, i + 1) = "\n" THEN CLineEnd(text, i + 2)
    ELSE IF text[i] = "\n" THEN i
    ELSE CLineEnd(text, i + 1)

\* Where the literal or comment that opens at position i ends; -1 when
\* nothing opens there, 0 when it is not closed.
CLiteralEnd(text, i) ==
    IF At(text, i) = "/" /\ At(text, i + 1) = "*" THEN CommentClose(text, i + 2)
    ELSE IF At(text, i) = "/" /\ At(text, i + 1) = "/" THEN CLineEnd(text, i + 2)
    ELSE IF At(text, i) \in {"\"", "'"} THEN CQuotedClose(text, i + 1, text[i])
    ELSE 0 - 1

RECURSIVE CLex(_, _)
CLex(text, i) ==
    IF i > Len(text) THEN [inside |-> {}, well_formed |-> TRUE]
    ELSE IF CLiteralEnd(text, i) < 0 THEN CLex(text, i + 1)
    ELSE IF CLiteralEnd(text, i) = 0 THEN [inside |-> {}, well_formed |-> FALSE]
    ELSE [inside |-> (i..(CLiteralEnd(text, i) - 1)) \cup CLex(text, CLiteralEnd(text, i)).inside,
          well_formed |-> CLex(text, CLiteralEnd(text, i)).well_formed]

\* The positions of the text that a call replaces.
ChangedBy(text, e) ==
    LET found == Matches(text, 1, e.target, e.context_next)
    IN  UNION { found[n][1]..(found[n][2] - 1) : n \in DOMAIN found }

\* C8: _safe_replace, as a plain rename and as a re-type, leaves every
\* character inside a string literal, a character literal, a line comment or
\* a block comment unchanged.  Checked for the latest call, on the texts whose
\* literals and comments are all closed, where "inside" has one meaning.
C8_LiteralsUnchanged ==
    (edit_idx > 1 /\ CLex(code_before, 1).well_formed)
        => ChangedBy(code_before, edits[edit_idx - 1]) \cap CLex(code_before, 1).inside = {}

SoundRenames(es) ==
    /\ \A n \in DOMAIN es : es[n].context_next = <<>> /\ es[n].target # es[n].replacement
    /\ \A n, m \in DOMAIN es : es[n].target = es[m].target => n = m

\* C9: applying a sound rename map (one _safe_replace per entry, in map
\* order) twice gives the same text as applying it once, also when one
\* entry's new name is another entry's old name.
C9_RenamesIdempotent ==
    (passes = MaxPasses /\ SoundRenames(edits)) => code = first_pass_code

-----------------------------------------------------------------------------
(* The rewrite stage: _run_stage (refactory_pipeline.py) with               *)
(* refactoring_agent and refactoring_validator (refactory_agents.py), for   *)
(* one module.  A function's name is its index in the module.               *)

MaxFunctions == 2
MaxCodeLen == 8000

\* "// [WARNING] REFACTORING FAILED. ORIGINAL CODE BELOW:\n", a comment line
WarningPrefix == <<"/", "/", "!", "\n">>

\* "\n...[TRUNCATED]"
TruncationMark == <<"\n", ".", ".", ".">>

Truncate(text) ==
    IF Len(text) > MaxCodeLen THEN SubSeq(text, 1, MaxCodeLen) \o TruncationMark ELSE text

\* What the oracle answers to a rewrite request: a failure (an exception, or
\* a text that is not JSON), or a JSON object with or without refactored_code.
RewriteTexts == { <<>>, <<"{", "}">>, <<"{">> }

RewriteResponses ==
    { [kind |-> "error", has_code |-> FALSE, refactored_code |-> <<>>],
      [kind |-> "object", has_code |-> FALSE, refactored_code |-> <<>>] }
    \cup { [kind |-> "object", has_code |-> TRUE, refactored_code |-> t] : t \in RewriteTexts }

\* The proposal refactoring_agent appends for one function (lines 223-279).
ProposalFor(function_name, func_code, es, resp) ==
    LET substituted == Truncate(ApplyEdits(func_code, es))
    IN  IF resp.kind = "error"
        THEN [function_name |-> function_name, original_code |-> func_code,
              refactored_code |-> WarningPrefix \o func_code, is_valid |-> FALSE]
        ELSE [function_name |-> function_name, original_code |-> func_code,
              refactored_code |-> IF resp.has_code THEN resp.refactored_code ELSE substituted,
              is_valid |-> TRUE]

\* str.count
RECURSIVE Count(_, _)
Count(text, ch) ==
    IF text = <<>> THEN 0
    ELSE (IF Head(text) = ch THEN 1 ELSE 0) + Count(Tail(text), ch)

BraceCheck_NoMoreClosing(text) == Count(text, "{") >= Count(text, "}")

\* `code.count("{") != code.count("}")` rejects (line 292)
BraceCheck(text) == Count(text, "{") = Count(text, "}")

RECURSIVE Confirm(_)
Confirm(proposals) ==
    IF proposals = <<>> THEN <<>>
    ELSE (IF BraceCheck(Head(proposals).refactored_code) THEN <<Head(proposals)>> ELSE <<>>)
         \o Confirm(Tail(proposals))

\* updates = agent_func(state); state.update(updates)
RefactoringAgent ==
    /\ rw_pc = "agent"
    /\ \E resps \in [DOMAIN module_code -> RewriteResponses] :
         refactoring_proposals' =
             [i \in DOMAIN module_code |-> ProposalFor(i, module_code[i], rw_edits, resps[i])]
    /\ rw_pc' = "validator"
    /\ UNCHANGED <<module_code, rw_edits, attempt, confirmed_refactorings>>
    /\ UNCHANGED <<voteVars, pipeVars, textVars, libVars, runVars, judgeVars, configVars, restVars>>

\* validation = validator_func(state); state.update(validation); the break
\* and the end of the for loop
RefactoringValidator ==
    /\ rw_pc = "validator"
    /\ confirmed_refactorings' = Confirm(refactoring_proposals)
    /\ IF confirmed_refactorings' # <<>> \/ attempt + 1 >= max_attempts
       THEN rw_pc' = "done" /\ UNCHANGED attempt
       ELSE rw_pc' = "agent" /\ attempt' = attempt + 1
    /\ UNCHANGED <<module_code, rw_edits, refactoring_proposals>>
    /\ UNCHANGED <<voteVars, pipeVars, textVars, libVars, runVars, judgeVars, configVars, restVars>>

FunctionCodes == { <<"{", "a", "}">>, <<"{", "a">> }

RewriteEdits == { <<>>, << RenameEdit(<<"a">>, <<"b">>) >>, << RenameEdit(<<"a">>, <<"{">>) >> }

InitRewrite ==
    /\ module_code \in UNION { [1..n -> FunctionCodes] : n \in 1..MaxFunctions }
    /\ rw_edits \in RewriteEdits
    /\ rw_pc = "agent"
    /\ attempt = 0
    /\ refactoring_proposals = <<>>
    /\ confirmed_refactorings = <<>>
    /\ IdleVote /\ IdlePipe /\ IdleText /\ IdleLib
    /\ IdleRun /\ IdleJudge /\ IdleConfig /\ IdleRest

NextRewrite == RefactoringAgent \/ RefactoringValidator

SpecRewrite == InitRewrite /\ [][NextRewrite]_vars

Braces(text, ch) == Cardinality({i \in DOMAIN text : text[i] = ch})

\* C10: after every run of the rewrite stage, retries included, each
\* proposal in confirmed_refactorings has as many "{" as "}".
C10_ConfirmedBalanced ==
    \A n \in DOMAIN confirmed_refactorings :
        Braces(confirmed_refactorings[n].refactored_code, "{")
            = Braces(confirmed_refactorings[n].refactored_code, "}")

\* The stage ended on a retry, with a proposal rejected and one with braces kept.
C10_Witness ==
    /\ rw_pc = "done"
    /\ attempt >= 1
    /\ Len(confirmed_refactorings) < Len(refactoring_proposals)
    /\ \E n \in DOMAIN confirmed_refactorings :
         Braces(confirmed_refactorings[n].refactored_code, "{") >= 1

\* source_code_generator, lines 335-341: the functions written into the
\* module's source file, one "// Original: <name>" block per confirmed
\* refactoring, in order
EmittedFunctions ==
    [n \in DOMAIN confirmed_refactorings |->
        [function_name |-> confirmed_refactorings[n].function_name,
         code |-> confirmed_refactorings[n].refactored_code]]

\* C23: when the oracle's rewrite of a function fails the paired-brace
\* check, the function is not dropped: its original code preceded by the
\* warning comment is in the confirmed rewrites and in the emitted source.
C23_RejectedRewriteKeepsOriginal ==
    rw_pc = "done" =>
        \A i \in DOMAIN refactoring_proposals :
            (/\ refactoring_proposals[i].is_valid
             /\ ~BraceCheck(refactoring_proposals[i].refactored_code)) =>
                \E n \in DOMAIN EmittedFunctions :
                    /\ EmittedFunctions[n].function_name = i
                    /\ EmittedFunctions[n].code
                          = WarningPrefix \o refactoring_proposals[i].original_code

-----------------------------------------------------------------------------
(* Letters and case, for the names the Librarian and the code generator    *)
(* transform.                                                              *)

LowerLetters == <<"a", "b", "c", "d", "e", "f", "g", "h", "i", "j", "k", "l", "m", "n", "o", "p", "q", "r", "s", "t", "u", "v", "w", "x", "y", "z">>

UpperLetters == <<"A", "B", "C", "D", "E", "F", "G", "H", "I", "J", "K", "L", "M", "N", "O", "P", "Q", "R", "S", "T", "U", "V", "W", "X", "Y", "Z">>

Letters == SeqToSet(LowerLetters) \cup SeqToSet(UpperLetters)

Upper(c) ==
    IF \E i \in 1..26 : LowerLetters[i] = c
    THEN UpperLetters[CHOOSE i \in 1..26 : LowerLetters[i] = c] ELSE c

Lower(c) ==
    IF \E i \in 1..26 : UpperLetters[i] = c
    THEN LowerLetters[CHOOSE i \in 1..26 : UpperLetters[i] = c] ELSE c

\* str.lower()
LowerText(text) == [i \in 1..Len(text) |-> Lower(text[i])]

\* str.startswith
StartsWith(text, prefix) ==
    Len(prefix) <= Len(text) /\ SubSeq(text, 1, Len(prefix)) = prefix

\* `sub in text`
HasSubstring(text, sub) ==
    \E i \in 0..(Len(text) - Len(sub)) : SubSeq(text, i + 1, i + Len(sub)) = sub

\* str.replace(old, new): the occurrences from left to right, not overlapping
RECURSIVE ReplaceText(_, _, _)
ReplaceText(text, old, new) ==
    IF Len(text) < Len(old) THEN text
    ELSE IF StartsWith(text, old)
    THEN new \o ReplaceText(SubSeq(text, Len(old) + 1, Len(text)), old, new)
    ELSE <<Head(text)>> \o ReplaceText(Tail(text), old, new)

\* str.rstrip(ch)
RECURSIVE RStrip(_, _)
RStrip(text, ch) ==
    IF text # <<>> /\ text[Len(text)] = ch
    THEN RStrip(SubSeq(text, 1, Len(text) - 1), ch) ELSE text

-----------------------------------------------------------------------------
(* Librarian.cluster_functions (librarian.py).  A function is a record of  *)
(* its address, its name and the names it calls; the address of the i-th   *)
(* function of the input is i, so addresses are pairwise distinct.  Python *)
(* iterates a set in an order of its own: every order is a choice here.    *)

MaxInput == 3
MaxModuleSize == 2

FunctionNames == { <<"n", "e", "t", "_", "a">>, <<"n", "e", "t", "_", "b">>, <<"c">> }

\* what a function calls: nothing, one function of the input, or one outside it
CallSets == {{}} \cup { {n} : n \in FunctionNames \cup {<<"e", "x", "t">>} }

InputNames == { functions[i].name : i \in DOMAIN functions }

\* build_call_graph: both directions, only names that some function carries
call_graph ==
    [n \in InputNames |->
        { m \in InputNames :
            \E i \in DOMAIN functions :
                \/ functions[i].name = n /\ m \in functions[i].calls
                \/ functions[i].name = m /\ n \in functions[i].calls }]

\* func_map = {f["name"]: f for f in functions}: the last function of a name
func_map ==
    [n \in InputNames |->
        functions[CHOOSE i \in DOMAIN functions :
                     /\ functions[i].name = n
                     /\ \A j \in DOMAIN functions : functions[j].name = n => j <= i]]

\* A slip in line 53: the limit of a cluster is max_module_size itself.
hard_limit_IsMaxSize == max_module_size

\* int(self.max_module_size * 1.5)
hard_limit == (max_module_size * 3) \div 2

\* every order of a finite set
Orders(S) == { q \in [1..Cardinality(S) -> S] : \A x \in S : \E i \in DOMAIN q : q[i] = x }

\* `for func in functions: if func["name"] not in visited:` opens a component
NextComponent ==
    /\ lpc = "outer"
    /\ fidx <= Len(functions)
    /\ IF functions[fidx].name \in visited
       THEN /\ fidx' = fidx + 1
            /\ UNCHANGED <<lpc, cluster, stack>>
       ELSE /\ cluster' = {}
            /\ stack' = <<functions[fidx].name>>
            /\ lpc' = "dfs"
            /\ UNCHANGED fidx
    /\ UNCHANGED <<functions, min_module_size, max_module_size, visited, modules>>
    /\ UNCHANGED <<voteVars, pipeVars, textVars, rewriteVars, runVars, judgeVars, configVars, restVars>>

\* one iteration of `while stack:` (lines 60-75)
DfsStep ==
    /\ lpc = "dfs"
    /\ stack # <<>>
    /\ LET current_func == stack[Len(stack)]
           rest == SubSeq(stack, 1, Len(stack) - 1)
       IN  IF current_func \in visited
           THEN /\ stack' = rest
                /\ UNCHANGED <<lpc, visited, cluster>>
           ELSE IF Cardinality(cluster) >= hard_limit
           THEN /\ stack' = rest
                /\ lpc' = "close"
                /\ UNCHANGED <<visited, cluster>>
           ELSE /\ visited' = visited \cup {current_func}
                /\ cluster' = cluster \cup {current_func}
                /\ \E pushed \in Orders(call_graph[current_func] \ visited') :
                     stack' = rest \o pushed
                /\ UNCHANGED lpc
    /\ UNCHANGED <<functions, min_module_size, max_module_size, fidx, modules>>
    /\ UNCHANGED <<voteVars, pipeVars, textVars, rewriteVars, runVars, judgeVars, configVars, restVars>>

\* the keywords dict of _generate_module_name, in its order
keywords ==
    << <<<<"a", "u", "t", "h">>,
         <<"a", "u", "t", "h", "e", "n", "t", "i", "c", "a", "t", "i", "o", "n">>>>,
       <<<<"n", "e", "t">>,
         <<"n", "e", "t", "w", "o", "r", "k">>>>,
       <<<<"f", "i", "l", "e">>,
         <<"f", "i", "l", "e", "s", "y", "s", "t", "e", "m">>>>,
       <<<<"c", "r", "y", "p", "t", "o">>,
         <<"c", "r", "y", "p", "t", "o", "g", "r", "a", "p", "h", "y">>>>,
       <<<<"i", "n", "i", "t">>,
         <<"i", "n", "i", "t", "i", "a", "l", "i", "z", "a", "t", "i", "o", "n">>>>,
       <<<<"p", "a", "r", "s", "e">>,
         <<"p", "a", "r", "s", "e", "r">>>>,
       <<<<"v", "e", "r", "i", "f", "y">>,
         <<"v", "e", "r", "i", "f", "i", "c", "a", "t", "i", "o", "n">>>>,
       <<<<"p", "r", "o", "c", "e", "s", "s">>,
         <<"p", "r", "o", "c", "e", "s", "s", "o", "r">>>>,
       <<<<"h", "a", "n", "d", "l", "e">>,
         <<"h", "a", "n", "d", "l", "e", "r">>>> >>

\* Librarian._find_common_prefix
RECURSIVE ShrinkPrefix(_, _)
ShrinkPrefix(prefix, str) ==
    IF StartsWith(str, prefix) THEN prefix
    ELSE ShrinkPrefix(SubSeq(prefix, 1, Len(prefix) - 1), str)

RECURSIVE CommonPrefix(_, _)
CommonPrefix(prefix, strings) ==
    IF strings = <<>> \/ prefix = <<>> THEN prefix
    ELSE CommonPrefix(ShrinkPrefix(prefix, Head(strings)), Tail(strings))

_find_common_prefix(strings) ==
    IF strings = <<>> THEN <<>> ELSE CommonPrefix(Head(strings), Tail(strings))

\* Librarian._generate_module_name on the names of the module's functions:
\* the first keyword found in some name, else a common prefix longer than
\* three characters, else the first name
_generate_module_name(names) ==
    LET found == { i \in DOMAIN keywords :
                     \E j \in DOMAIN names : HasSubstring(LowerText(names[j]), keywords[i][1]) }
        prefix == _find_common_prefix(names)
    IN  IF found # {}
        THEN keywords[CHOOSE i \in found : \A j \in found : i <= j][2]
        ELSE IF names # <<>> /\ Len(prefix) > 3
        THEN RStrip(LowerText(prefix), "_")
        ELSE IF names # <<>>
        THEN ReplaceText(LowerText(names[1]), <<"f", "u", "n", "_">>, <<"m", "o", "d", "u", "l", "e", "_">>)
        ELSE <<"u", "n", "k", "n", "o", "w", "n">>

ModuleName(module_functions) ==
    _generate_module_name([i \in DOMAIN module_functions |-> module_functions[i].name])

Digits == <<"1", "2", "3", "4", "5", "6", "7", "8", "9">>

\* f"utilities_{i//chunk_size + 1}"
UtilitiesName(n) == <<"u", "t", "i", "l", "i", "t", "i", "e", "s", "_">> \o <<Digits[n]>>

\* after the while loop: a cluster of at least min_module_size is a module
CloseComponent ==
    /\ \/ lpc = "close"
       \/ lpc = "dfs" /\ stack = <<>>
    /\ IF Cardinality(cluster) >= min_module_size
       THEN \E names \in Orders(cluster) :
              LET module_functions == [i \in DOMAIN names |-> func_map[names[i]]]
              IN  modules' = Append(modules, [module_name |-> ModuleName(module_functions),
                                              functions |-> module_functions])
       ELSE UNCHANGED modules
    /\ lpc' = "outer"
    /\ fidx' = fidx + 1
    /\ stack' = <<>>
    /\ UNCHANGED <<functions, min_module_size, max_module_size, visited, cluster>>
    /\ UNCHANGED <<voteVars, pipeVars, textVars, rewriteVars, runVars, judgeVars, configVars, restVars>>

grouped_function_names ==
    UNION { { modules[m].functions[j].name : j \in DOMAIN modules[m].functions } :
            m \in DOMAIN modules }

\* A slip in lines 98-100: the orphans are not split.
Chunks_Unsplit(orphans, chunk_size, n) ==
    IF orphans = <<>> THEN <<>>
    ELSE << [module_name |-> UtilitiesName(n), functions |-> orphans] >>

\* orphans[i:i + chunk_size] for i in range(0, len(orphans), chunk_size)
RECURSIVE Chunks(_, _, _)
Chunks(orphans, chunk_size, n) ==
    IF orphans = <<>> THEN <<>>
    ELSE IF Len(orphans) <= chunk_size
         THEN << [module_name |-> UtilitiesName(n), functions |-> orphans] >>
    ELSE << [module_name |-> UtilitiesName(n),
             functions |-> SubSeq(orphans, 1, chunk_size)] >>
         \o Chunks(SubSeq(orphans, chunk_size + 1, Len(orphans)), chunk_size, n + 1)

\* the functions whose name is in no module go to the utilities modules
CollectOrphans ==
    /\ lpc = "outer"
    /\ fidx > Len(functions)
    /\ LET orphans == SelectSeq(functions, LAMBDA f : f.name \notin grouped_function_names)
       IN  modules' = modules \o Chunks(orphans, max_module_size, 1)
    /\ lpc' = "done"
    /\ UNCHANGED <<functions, min_module_size, max_module_size, fidx, visited, cluster, stack>>
    /\ UNCHANGED <<voteVars, pipeVars, textVars, rewriteVars, runVars, judgeVars, configVars, restVars>>

FunctionLists(most) ==
    UNION { { [i \in 1..n |-> [address |-> i, name |-> nm[i], calls |-> cs[i]]] :
              nm \in [1..n -> FunctionNames], cs \in [1..n -> CallSets] } : n \in 0..most }

InitCluster ==
    /\ functions \in FunctionLists(MaxInput)
    /\ min_module_size \in 1..MaxModuleSize
    /\ max_module_size \in 1..MaxModuleSize
    /\ lpc = "outer"
    /\ fidx = 1
    /\ visited = {}
    /\ cluster = {}
    /\ stack = <<>>
    /\ modules = <<>>
    /\ IdleVote /\ IdlePipe /\ IdleText /\ IdleRewrite
    /\ IdleRun /\ IdleJudge /\ IdleConfig /\ IdleRest

NextCluster == NextComponent \/ DfsStep \/ CloseComponent \/ CollectOrphans

SpecCluster == InitCluster /\ [][NextCluster]_vars

\* how many times a module lists the function of address a
Placements(a) ==
    Cardinality({ mj \in (DOMAIN modules) \X (1..MaxInput) :
                    /\ mj[2] \in DOMAIN modules[mj[1]].functions
                    /\ modules[mj[1]].functions[mj[2]].address = a })

\* C5: for inputs with pairwise distinct addresses (names need not be
\* distinct) the modules returned by cluster_functions partition the input:
\* every input function is in exactly one module, once.
C5_ModulesPartitionInput ==
    lpc = "done" => \A i \in DOMAIN functions : Placements(i) = 1

\* C11: every module returned by cluster_functions, clustered or utilities,
\* has between min_module_size and ceil(1.5 * max_module_size) functions.
C11_ModuleSizesInRange ==
    lpc = "done" =>
        \A m \in DOMAIN modules :
            /\ Len(modules[m].functions) >= min_module_size
            /\ Len(modules[m].functions) <= (3 * max_module_size + 1) \div 2

\* C21: the module_name values of the modules returned by one call of
\* cluster_functions are pairwise distinct.
C21_ModuleNamesDistinct ==
    lpc = "done" =>
        \A m, n \in DOMAIN modules :
            modules[m].module_name = modules[n].module_name => m = n

-----------------------------------------------------------------------------
(* The Judge: CompilerJudge (compiler_judge.py) and the trace client it is *)
(* constructed with (agent_lightning_bridge.py).                           *)

MaxAssessCalls == 3
MaxTraces == 4

RewardBuildSuccess == 10
RewardSyntaxErrors == 0 - 5
RewardBuildSystemError == 0

\* the methods class AgentLightningClient defines
ClientMethods == {"__init__", "log_transition", "_flush_to_disk"}

\* what subprocess.run(["dotnet", "build"], timeout=60) can do
BuildOutcomes == {"exit_zero", "exit_nonzero", "not_found", "timeout"}

\* AgentLightningClient.log_transition: one Trace appended under the lock,
\* numbered by the step counter
log_transition(traces, state, action, reward, next_state) ==
    Append(traces, [step_id |-> Len(traces) + 1, state |-> state, action |-> action,
                    reward |-> reward, next_state |-> next_state])

\* a method call on the client: an attribute the class does not define
\* raises AttributeError and leaves the client as it was
ClientCall(method, traces, state, action, reward, next_state) ==
    IF method \in ClientMethods
    THEN [raised |-> FALSE,
          traces |-> log_transition(traces, state, action, reward, next_state)]
    ELSE [raised |-> TRUE, traces |-> traces]

\* CompilerJudge._log: self.client.log_trace(state="COMPILATION_PHASE", ...)
_log(traces, reward) ==
    ClientCall("log_trace", traces, "COMPILATION_PHASE", "dotnet build", reward,
               "TERMINAL")

\* CompilerJudge.assess_build for one outcome of the build tool: the traces
\* of the client afterwards and the value returned.  subprocess.run raises
\* for a missing tool and for a timeout; _log runs inside the same try, so
\* whatever it raises is caught by `except Exception` as well.
assess_build(traces, outcome) ==
    IF outcome \in {"not_found", "timeout"}
    THEN [traces |-> traces, reward |-> RewardBuildSystemError]
    ELSE LET reward == IF outcome = "exit_zero" THEN RewardBuildSuccess
                       ELSE RewardSyntaxErrors
             logged == _log(traces, reward)
         IN  IF logged.raised
             THEN [traces |-> logged.traces, reward |-> RewardBuildSystemError]
             ELSE [traces |-> logged.traces, reward |-> reward]

IdleOthersOfJudge ==
    UNCHANGED <<voteVars, pipeVars, textVars, rewriteVars, libVars, runVars, configVars, restVars>>

\* one call of assess_build on a Judge that was given a client
AssessBuild ==
    /\ assess_calls < MaxAssessCalls
    /\ \E outcome \in BuildOutcomes :
          LET r == assess_build(client_traces, outcome)
          IN  /\ build_outcome' = outcome
              /\ client_traces' = r.traces
              /\ build_reward' = r.reward
    /\ assess_calls' = assess_calls + 1
    /\ IdleOthersOfJudge

\* the voter logging one sample on the same client (_get_vote)
LogTransition ==
    /\ Len(client_traces) < MaxTraces
    /\ \E reward \in {RewardValid, RewardRedFlag} :
          client_traces' =
              log_transition(client_traces, "prompt", "response_text", reward,
                             IF reward = RewardValid THEN "VOTING_POOL"
                             ELSE "TERMINAL_FAILURE")
    /\ UNCHANGED <<assess_calls, build_outcome, build_reward>>
    /\ IdleOthersOfJudge

InitJudge ==
    /\ client_traces = <<>>
    /\ assess_calls = 0
    /\ build_outcome = "none"
    /\ build_reward = 0
    /\ IdleVote /\ IdlePipe /\ IdleText /\ IdleRewrite /\ IdleLib
    /\ IdleRun /\ IdleConfig /\ IdleRest

NextJudge == AssessBuild \/ LogTransition

SpecJudge == InitJudge /\ [][NextJudge]_vars

\* the call added one record for the compilation phase with this reward
LoggedCompilation(reward) ==
    /\ Len(client_traces') = Len(client_traces) + 1
    /\ client_traces'[Len(client_traces')].state = "COMPILATION_PHASE"
    /\ client_traces'[Len(client_traces')].reward = reward

\* C14: assess_build returns +1.0 when the build tool exits 0, -0.5 when it
\* exits non-zero and 0.0 when the tool is missing or times out; in the
\* first two cases the call appends one COMPILATION_PHASE record carrying
\* that reward to the trace log.
C14_JudgeRewards ==
    [][assess_calls' # assess_calls =>
          /\ build_outcome' = "exit_zero" =>
                build_reward' = RewardBuildSuccess /\ LoggedCompilation(RewardBuildSuccess)
          /\ build_outcome' = "exit_nonzero" =>
                build_reward' = RewardSyntaxErrors /\ LoggedCompilation(RewardSyntaxErrors)
          /\ build_outcome' \in {"not_found", "timeout"} =>
                build_reward' = RewardBuildSystemError]_vars

-----------------------------------------------------------------------------
(* RefactoryPipeline.run (refactory_pipeline.py): the modules are submitted *)
(* to a thread pool, their results are collected as they complete, the     *)
(* files are written and the Judge is called.  A worker is seen from the   *)
(* outside here: it starts, and it returns a result or raises.             *)

NumModules == 3
MaxPoolSize == 2

\* str.title() on one piece: a letter is upper-cased when it follows a
\* non-letter or starts the piece, lower-cased otherwise
Title(piece) ==
    [i \in 1..Len(piece) |->
        IF piece[i] \notin Letters THEN piece[i]
        ELSE IF i = 1 \/ piece[i - 1] \notin Letters THEN Upper(piece[i])
        ELSE Lower(piece[i])]

\* str.split("_")
RECURSIVE Split(_, _)
Split(text, piece) ==
    IF text = <<>> THEN <<piece>>
    ELSE IF Head(text) = "_" THEN <<piece>> \o Split(Tail(text), <<>>)
    ELSE Split(Tail(text), Append(piece, Head(text)))

RECURSIVE Join(_)
Join(pieces) == IF pieces = <<>> THEN <<>> ELSE Head(pieces) \o Join(Tail(pieces))

\* source_code_generator's class_name:
\* "".join(x.title() for x in module_name.replace("-", "_").split("_"))
class_name(module_name) ==
    LET replaced == [i \in 1..Len(module_name) |->
                        IF module_name[i] = "-" THEN "_" ELSE module_name[i]]
        pieces == Split(replaced, <<>>)
    IN  Join([i \in 1..Len(pieces) |-> Title(pieces[i])])

\* the one entry of final_source_files of module m: {f"{class_name}.cs": source_content};
\* the content is identified by the module it was generated from
final_source_files(m) == << <<class_name(module_names[m]), m>> >>

ModuleNameSet == { <<"a", "_", "b">>, <<"a", "_", "_", "b">>, <<"b">> }

NewTask == [state |-> "pending", result |-> "none", yielded |-> FALSE]

Running == {m \in DOMAIN task : task[m].state = "running"}

Pending == {m \in DOMAIN task : task[m].state = "pending"}

IdleOthersOfRun ==
    UNCHANGED <<voteVars, pipeVars, textVars, rewriteVars, libVars, judgeVars, configVars, restVars>>

\* run(), lines 69-95: no modules, return; otherwise submit every module
SubmitAll ==
    /\ run_pc = "start"
    /\ IF module_names = <<>>
       THEN run_pc' = "returned" /\ UNCHANGED task
       ELSE /\ run_pc' = "loop"
            /\ task' = [m \in DOMAIN module_names |-> NewTask]
    /\ UNCHANGED <<module_names, max_workers, all_source_files, written,
                   completed_before_stop, module_errors, judge_invocations, final_score>>
    /\ IdleOthersOfRun

\* a pool thread takes the oldest queued work item
StartTask(m) ==
    /\ m \in Pending
    /\ \A n \in Pending : m <= n
    /\ Cardinality(Running) < max_workers
    /\ task' = [task EXCEPT ![m].state = "running"]
    /\ UNCHANGED <<module_names, max_workers, run_pc, all_source_files, written,
                   completed_before_stop, module_errors, judge_invocations, final_score>>
    /\ IdleOthersOfRun

\* process_module returns its files, returns {} at a stop check, or raises
TaskResults == IF stop_event THEN {"files", "empty", "raised"} ELSE {"files", "raised"}

TaskReturns(m) ==
    /\ m \in Running
    /\ \E result \in TaskResults :
          /\ task' = [task EXCEPT ![m].state = "finished", ![m].result = result]
          /\ completed_before_stop' =
                IF result = "files" /\ ~stop_event
                THEN completed_before_stop \cup {m} ELSE completed_before_stop
    /\ UNCHANGED <<module_names, max_workers, run_pc, all_source_files, written,
                   module_errors, judge_invocations, final_score>>
    /\ IdleOthersOfRun

\* one iteration of `for future in as_completed(...)`, lines 99-117
Collect(m) ==
    /\ run_pc = "loop"
    /\ task[m].state = "finished" /\ ~task[m].yielded
    /\ IF stop_event
       THEN \* executor.shutdown(wait=False, cancel_futures=True); break
            /\ task' = [n \in DOMAIN task |->
                           IF n = m THEN [task[n] EXCEPT !.yielded = TRUE]
                           ELSE IF task[n].state = "pending"
                           THEN [task[n] EXCEPT !.state = "cancelled"]
                           ELSE task[n]]
            /\ run_pc' = "exit_pool"
            /\ UNCHANGED <<all_source_files, module_errors>>
       ELSE /\ task' = [task EXCEPT ![m].yielded = TRUE]
            /\ module_errors' = IF task[m].result = "raised"
                                THEN module_errors \cup {m} ELSE module_errors
            /\ all_source_files' =
                  IF task[m].result = "files"
                  THEN DictUpdate(all_source_files, final_source_files(m))
                  ELSE all_source_files
            /\ run_pc' = IF \A n \in DOMAIN task : n = m \/ task[n].yielded
                         THEN "exit_pool" ELSE "loop"
    /\ UNCHANGED <<module_names, max_workers, written, completed_before_stop,
                   judge_invocations, final_score>>
    /\ IdleOthersOfRun

\* leaving the `with` block: shutdown(wait=True) joins the pool threads;
\* then `if stop_event.is_set(): return`, lines 119-120
ExitPool ==
    /\ run_pc = "exit_pool"
    /\ Running = {} /\ Pending = {}
    /\ run_pc' = IF stop_event THEN "returned" ELSE "write"
    /\ UNCHANGED <<module_names, max_workers, task, all_source_files, written,
                   completed_before_stop, module_errors, judge_invocations, final_score>>
    /\ IdleOthersOfRun

\* self.write_output(all_source_files, all_header_files), line 123
WriteOutput ==
    /\ run_pc = "write"
    /\ written' = all_source_files
    /\ run_pc' = "judge"
    /\ UNCHANGED <<module_names, max_workers, task, all_source_files,
                   completed_before_stop, module_errors, judge_invocations, final_score>>
    /\ IdleOthersOfRun

\* the parameters of CompilerJudge.__init__ after self, and its methods
JudgeInitParams == <<"project_dir", "lightning_client">>

JudgeMethods == {"__init__", "assess_build", "_log"}

\* what run() passes and calls: CompilerJudge(self.output_dir); judge.evaluate()
RunJudgeArgs == <<"output_dir">>

RunJudgeCall == "evaluate"

\* lines 127-134: a call with a missing positional argument raises
\* TypeError, a call of an undefined method raises AttributeError; run()
\* catches neither
InvokeJudge ==
    /\ run_pc = "judge"
    /\ IF Len(RunJudgeArgs) # Len(JudgeInitParams) \/ RunJudgeCall \notin JudgeMethods
       THEN /\ run_pc' = "raised"
            /\ UNCHANGED <<judge_invocations, final_score>>
       ELSE /\ run_pc' = "returned"
            /\ judge_invocations' = judge_invocations + 1
            /\ \E outcome \in BuildOutcomes :
                  final_score' = assess_build(<<>>, outcome).reward
    /\ UNCHANGED <<module_names, max_workers, task, all_source_files, written,
                   completed_before_stop, module_errors>>
    /\ IdleOthersOfRun

\* AnalysisManager.stop / launcher.stop_execution while the run is going on
StopRun == run_pc \notin {"returned", "raised"} /\ ~stop_event /\ Stop

InitRun ==
    /\ module_names \in UNION {[1..n -> ModuleNameSet] : n \in 0..NumModules}
    /\ max_workers \in 1..MaxPoolSize
    /\ task = <<>>
    /\ run_pc = "start"
    /\ all_source_files = <<>>
    /\ written = <<>>
    /\ completed_before_stop = {}
    /\ module_errors = {}
    /\ judge_invocations = 0
    /\ final_score = "none"
    /\ IdleVote /\ IdlePipe /\ IdleText /\ IdleRewrite /\ IdleLib
    /\ IdleJudge /\ IdleConfig /\ IdleRest

NextRun ==
    \/ SubmitAll
    \/ \E m \in DOMAIN task : StartTask(m) \/ TaskReturns(m) \/ Collect(m)
    \/ ExitPool \/ WriteOutput \/ InvokeJudge \/ StopRun

SpecRun == InitRun /\ [][NextRun]_vars

\* C15: a run cancelled after one or more modules completed returns
\* cleanly, and the source files in the output directory are exactly those
\* of the modules that completed before the cancellation.
C15_CancelledRunKeepsArtifacts ==
    (stop_event /\ completed_before_stop # {} /\ run_pc \in {"returned", "raised"}) =>
        /\ run_pc = "returned"
        /\ DictKeys(written) = {class_name(module_names[m]) : m \in completed_before_stop}

\* C16: a run that is not cancelled writes all generated files, then has
\* the Judge assess the build exactly once, and completes with the Judge's
\* reward as its final score.
C16_WriteThenJudgeOnce ==
    (~stop_event /\ module_names # <<>> /\ run_pc \in {"returned", "raised"}) =>
        /\ run_pc = "returned"
        /\ written = all_source_files
        /\ judge_invocations = 1
        /\ final_score \in {RewardBuildSuccess, RewardSyntaxErrors, RewardBuildSystemError}

\* C22: after a run that is not cancelled and in which every module
\* returned its files, the collected and the written source files hold one
\* file per module, each with the content generated from that module: no
\* module's file is replaced by the file of another module.
C22_OneFilePerModule ==
    (/\ ~stop_event
     /\ run_pc \in {"judge", "returned", "raised"}
     /\ module_names # <<>>
     /\ \A m \in DOMAIN task : task[m].result = "files") =>
        /\ Len(written) = Len(module_names)
        /\ \A m \in DOMAIN module_names :
              /\ \E i \in DOMAIN all_source_files : all_source_files[i][2] = m
              /\ \E i \in DOMAIN written : written[i][2] = m

\* C25: in a run that is not cancelled, a module whose processing raised
\* costs that module only: an error is recorded for exactly the modules
\* that raised, every module has run to its end, and the source file of
\* every module that returned its files is collected and written.
C25_ModuleErrorIsIsolated ==
    (/\ ~stop_event
     /\ run_pc \in {"judge", "returned", "raised"}
     /\ \E m \in DOMAIN task : task[m].result = "raised") =>
        /\ module_errors = {m \in DOMAIN task : task[m].result = "raised"}
        /\ \A m \in DOMAIN task : task[m].state = "finished"
        /\ \A m \in DOMAIN task :
              task[m].result = "files" =>
                 /\ \E i \in DOMAIN all_source_files : all_source_files[i][2] = m
                 /\ \E i \in DOMAIN written : written[i][2] = m

-----------------------------------------------------------------------------
(* MakerConfig (true_maker.py): the clamp of the error rate and the choice *)
(* of k.  Rates are in hundredths.  The target reliability t enters the    *)
(* computation only through t ** (-1 / s), so t is given by its s-th root: *)
(* t = (target_root / 100) ** s with s = max(1, total_steps).              *)

KCap == 3
KBelow == 1
LowK == 0 - KBelow
FallbackK == 3
MinK == 2
MinErrorRate == 1
MaxErrorRate == 49

RawErrorRates == {0 - 1, 0, 1, 20, 25, 40, 49, 50, 60}
TargetRoots == {0, 50, 52, 80, 90, 95, 99, 100}
StepCounts == {0, 1, 3}
KOverrides == {<<>>, <<1>>, <<5>>}
MeasuredRates == {0, 50, 51, 80, 100}

\* lines 53-58 and 141-145: the error rate is clamped to [0.01, 0.49]
Clamp(rate) ==
    IF rate < MinErrorRate THEN MinErrorRate
    ELSE IF rate > MaxErrorRate THEN MaxErrorRate
    ELSE rate

RECURSIVE Pow(_, _)
Pow(a, n) == IF n = 0 THEN 1 ELSE a * Pow(a, n - 1)

RECURSIVE Gcd(_, _)
Gcd(a, b) == IF b = 0 THEN a ELSE Gcd(b, a % b)

\* term2 ** j <= term1 (or = term1), for term2 = e / d and term1 = c1 / c2
\* in lowest terms
PowerAtMost(e, d, c1, c2, j) ==
    IF j >= 0 THEN Pow(e, j) * c2 <= Pow(d, j) * c1
    ELSE Pow(d, 0 - j) * c2 <= Pow(e, 0 - j) * c1

PowerEquals(e, d, c1, c2, j) ==
    IF j >= 0 THEN Pow(e, j) * c2 = Pow(d, j) * c1
    ELSE Pow(d, 0 - j) * c2 = Pow(e, 0 - j) * c1

\* math.ceil(math.log(term1) / math.log(term2)) for 0 < term2 < 1 is the
\* least integer j with term2 ** j <= term1.  The search is cut at both
\* ends: a result of LowK stands for every j <= LowK and a result of
\* KCap + 1 for every j > KCap.
RECURSIVE LeastPower(_, _, _, _, _)
LeastPower(e, d, c1, c2, j) ==
    IF j > KCap THEN KCap + 1
    ELSE IF PowerAtMost(e, d, c1, c2, j) THEN j
    ELSE LeastPower(e, d, c1, c2, j + 1)

\* the values math.ceil can return: when the quotient of the logarithms is
\* an integer j in exact arithmetic, the floating-point quotient may fall
\* on either side of it, and the ceiling is j or j + 1
CeilOfLogQuotient(e, d, c1, c2) ==
    LET j == LeastPower(e, d, c1, c2, LowK)
    IN  IF j <= KCap /\ j > LowK /\ PowerEquals(e, d, c1, c2, j) THEN {j, j + 1}
        ELSE {j}

Max(a, b) == IF a >= b THEN a ELSE b

\* MakerConfig._calculate_k_min without the final max(2, k_min)
_calculate_k_min_NoFloor(error_rate, root) ==
    LET p == 100 - error_rate
    IN  IF p <= 50 THEN [raised |-> TRUE, values |-> {}]
        ELSE IF root <= 0
        THEN [raised |-> FALSE, values |-> {FallbackK}]
        ELSE IF 100 - root <= 0
        THEN [raised |-> FALSE, values |-> {FallbackK}]
        ELSE LET g1 == Gcd(100 - root, root)
                 g2 == Gcd(p, 100 - p)
                 ceils == CeilOfLogQuotient((100 - p) \div g2, p \div g2,
                                            (100 - root) \div g1, root \div g1)
             IN  [raised |-> FALSE, values |-> ceils]

\* MakerConfig._calculate_k_min, lines 70-111: raises ValueError for
\* p <= 0.5; math.pow raises for t = 0 and the except clause sets
\* k_min = 3; term1 <= 0 returns 3; otherwise max(2, k_min).  The result is
\* the set of values the call can return.
_calculate_k_min(error_rate, root) ==
    LET p == 100 - error_rate
    IN  IF p <= 50 THEN [raised |-> TRUE, values |-> {}]
        ELSE IF root <= 0
        THEN [raised |-> FALSE, values |-> {Max(MinK, FallbackK)}]
        ELSE IF 100 - root <= 0
        THEN [raised |-> FALSE, values |-> {FallbackK}]
        ELSE LET g1 == Gcd(100 - root, root)
                 g2 == Gcd(p, 100 - p)
                 ceils == CeilOfLogQuotient((100 - p) \div g2, p \div g2,
                                            (100 - root) \div g1, root \div g1)
             IN  [raised |-> FALSE, values |-> {Max(MinK, j) : j \in ceils}]

IdleOthersOfConfig ==
    UNCHANGED <<voteVars, pipeVars, textVars, rewriteVars, libVars, runVars, judgeVars, restVars>>

\* self.k after the error rate has been set: the override, or the formula
SetK(error_rate, done) ==
    IF k_override # <<>>
    THEN config_k' = k_override[1] /\ config_pc' = done
    ELSE LET r == _calculate_k_min(error_rate, target_root)
         IN  IF r.raised THEN config_pc' = "failed" /\ UNCHANGED config_k
             ELSE config_k' \in r.values /\ config_pc' = done

\* MakerConfig.__init__, lines 26-68
Construct ==
    /\ config_pc = "new"
    /\ estimated_error_rate' = Clamp(raw_error_rate)
    /\ SetK(Clamp(raw_error_rate), "constructed")
    /\ UNCHANGED <<raw_error_rate, target_root, total_steps, k_override, feasible>>
    /\ IdleOthersOfConfig

\* MakerConfig.calibrate, lines 113-153, for a measured success rate p
Calibrate ==
    /\ config_pc \in {"constructed", "calibrated"}
    /\ \E measured \in MeasuredRates :
          /\ estimated_error_rate' = Clamp(100 - measured)
          /\ SetK(Clamp(100 - measured), "calibrated")
          /\ feasible' = (measured > 50)
    /\ UNCHANGED <<raw_error_rate, target_root, total_steps, k_override>>
    /\ IdleOthersOfConfig

InitConfig ==
    /\ raw_error_rate \in RawErrorRates
    /\ target_root \in TargetRoots
    /\ total_steps \in StepCounts
    /\ k_override \in KOverrides
    /\ estimated_error_rate = 0
    /\ config_k = 0
    /\ config_pc = "new"
    /\ feasible = TRUE
    /\ IdleVote /\ IdlePipe /\ IdleText /\ IdleRewrite /\ IdleLib
    /\ IdleRun /\ IdleJudge /\ IdleRest

NextConfig == Construct \/ Calibrate

SpecConfig == InitConfig /\ [][NextConfig]_vars

\* the clamp as the claim words it
ClampedAsClaimed(raw, rate) ==
    /\ raw < 1 => rate = 1
    /\ raw > 49 => rate = 49
    /\ raw \in 1..49 => rate = raw

\* C19: for any raw error rate, any target reliability in (0,1), any step
\* count >= 1 and no k override, after construction and after calibrate the
\* error rate is in [0.01, 0.49] (raised, lowered or kept by the
\* constructor) and k is an integer >= 2.
C19_ClampedRateAndKAtLeastTwo ==
    (k_override = <<>> /\ target_root \in 1..99 /\ total_steps >= 1 /\ config_pc # "new") =>
        /\ config_pc \in {"constructed", "calibrated"}
        /\ estimated_error_rate \in 1..49
        /\ config_pc = "constructed" => ClampedAsClaimed(raw_error_rate, estimated_error_rate)
        /\ config_k \in Int /\ config_k >= 2

\* a raw rate above the range was lowered on construction, calibrate has
\* run, and the formula gave a k above the floor
C19_Witness ==
    /\ config_pc = "calibrated"
    /\ k_override = <<>> /\ target_root = 52 /\ total_steps >= 1
    /\ raw_error_rate > 49
    /\ estimated_error_rate = 49
    /\ config_k = 3

-----------------------------------------------------------------------------
(* Stage 0.5 of process_module under the pool: each module's worker       *)
(* inspects its module and, when there are findings, appends the module's *)
(* section to SECRETS_REPORT.md inside `with self.file_lock`.  One worker  *)
(* per module (the pool's default size is at least NumReportModules); a    *)
(* line reaches the file no later than the close of the `with open` block, *)
(* and as early as its write call: the model takes the earliest.           *)

NumReportModules == 3

\* inspector.PATTERNS, in dict order
PATTERNS == <<"AWS_KEY", "Generic_API_Key", "IPv4", "URL">>

\* the sets of labels whose pattern matches the code of a module
MatchedSets == { {}, {"URL"}, {"AWS_KEY", "IPv4"} }

\* inspector.inspect_module: the labels with matches, in PATTERNS order
inspect_module(matched) == SelectSeq(PATTERNS, LAMBDA label : label \in matched)

HeaderLine == "## Module"
BlankLine == ""

\* the lines process_module writes for module m
Section(m) ==
    <<[module |-> m, line |-> HeaderLine]>>
    \o [n \in DOMAIN findings[m] |-> [module |-> m, line |-> findings[m][n]]]
    \o <<[module |-> m, line |-> BlankLine]>>

\* threading.Lock: `with self.file_lock` enters only when no thread holds it
FileLockFree_Always(lock) == TRUE

FileLockFree(lock) == lock = 0

IdleOthersOfReport ==
    UNCHANGED <<voteVars, textVars, rewriteVars, libVars, runVars, judgeVars,
                configVars, clientVars, stageVars, driverVars, tallyVars, lateVars>>

\* `if stop_event and stop_event.is_set(): return {}` (the pause event is set)
EnterModule(m) ==
    /\ inspector[m].pc = "check"
    /\ pause_event
    /\ inspector' = [inspector EXCEPT ![m].pc = IF stop_event THEN "cancelled" ELSE "inspect"]
    /\ UNCHANGED <<findings, file_lock, secrets_report, pipeVars>>
    /\ IdleOthersOfReport

\* `findings = inspect_module(module_code)` and `if findings:`
InspectModule(m) ==
    /\ inspector[m].pc = "inspect"
    /\ findings' = [findings EXCEPT ![m] = inspect_module(inspector[m].matched)]
    /\ inspector' = [inspector EXCEPT ![m].pc = IF findings'[m] # <<>> THEN "lock" ELSE "done"]
    /\ UNCHANGED <<file_lock, secrets_report, pipeVars>>
    /\ IdleOthersOfReport

\* `with self.file_lock:` and `with open(report_path, "a") as f:`
AcquireFileLock(m) ==
    /\ inspector[m].pc = "lock"
    /\ FileLockFree(file_lock)
    /\ file_lock' = m
    /\ inspector' = [inspector EXCEPT ![m].pc = "header"]
    /\ UNCHANGED <<findings, secrets_report, pipeVars>>
    /\ IdleOthersOfReport

\* f.write(f"## Module: {module['module_name']}\n")
WriteHeader(m) ==
    /\ inspector[m].pc = "header"
    /\ secrets_report' = Append(secrets_report, [module |-> m, line |-> HeaderLine])
    /\ inspector' = [inspector EXCEPT ![m].pc = "labels", ![m].next = 1]
    /\ UNCHANGED <<findings, file_lock, pipeVars>>
    /\ IdleOthersOfReport

\* one turn of `for label, matches in findings.items(): f.write(...)`
WriteLabel(m) ==
    /\ inspector[m].pc = "labels"
    /\ inspector[m].next <= Len(findings[m])
    /\ secrets_report' = Append(secrets_report,
                                [module |-> m, line |-> findings[m][inspector[m].next]])
    /\ inspector' = [inspector EXCEPT ![m].next = @ + 1]
    /\ UNCHANGED <<findings, file_lock, pipeVars>>
    /\ IdleOthersOfReport

\* f.write("\n") and the close of the file
WriteBlank(m) ==
    /\ inspector[m].pc = "labels"
    /\ inspector[m].next > Len(findings[m])
    /\ secrets_report' = Append(secrets_report, [module |-> m, line |-> BlankLine])
    /\ inspector' = [inspector EXCEPT ![m].pc = "unlock"]
    /\ UNCHANGED <<findings, file_lock, pipeVars>>
    /\ IdleOthersOfReport

\* the end of `with self.file_lock:`
ReleaseFileLock(m) ==
    /\ inspector[m].pc = "unlock"
    /\ file_lock' = 0
    /\ inspector' = [inspector EXCEPT ![m].pc = "done"]
    /\ UNCHANGED <<findings, secrets_report, pipeVars>>
    /\ IdleOthersOfReport

InitReport ==
    /\ findings = [m \in 1..NumReportModules |-> <<>>]
    /\ file_lock = 0
    /\ secrets_report = <<>>
    /\ inspector \in [1..NumReportModules ->
                        [pc : {"check"}, matched : MatchedSets, next : {1}]]
    /\ IdleVote /\ IdlePipe /\ IdleText /\ IdleRewrite /\ IdleLib
    /\ IdleRun /\ IdleJudge /\ IdleConfig
    /\ IdleClient /\ IdleStage /\ IdleDriver /\ IdleTally /\ IdleLate

NextReport ==
    \/ \E m \in 1..NumReportModules :
          \/ EnterModule(m) \/ InspectModule(m) \/ AcquireFileLock(m)
          \/ WriteHeader(m) \/ WriteLabel(m) \/ WriteBlank(m) \/ ReleaseFileLock(m)
    \/ Stop

SpecReport == InitReport /\ [][NextReport]_vars

\* the workers between the acquisition and the release of the lock
InsideAppend == {m \in 1..NumReportModules : inspector[m].pc \in {"header", "labels", "unlock"}}

\* the positions of the report at which module m's header line stands
HeadersOf(m) ==
    {i \in DOMAIN secrets_report : secrets_report[i] = [module |-> m, line |-> HeaderLine]}

\* C26: at most one worker is inside the report append at any time; a
\* module whose worker found something and has left Stage 0.5 has exactly
\* one section in the report, with its lines in order and adjacent, and a
\* module without findings has none; between two lines of one module there
\* is no line of another module.
C26_ReportAppendsAreExclusive ==
    /\ Cardinality(InsideAppend) <= 1
    /\ \A m \in 1..NumReportModules :
          inspector[m].pc = "done" =>
             IF findings[m] # <<>>
             THEN /\ Cardinality(HeadersOf(m)) = 1
                  /\ \E i \in HeadersOf(m) :
                        /\ i + Len(Section(m)) - 1 <= Len(secrets_report)
                        /\ SubSeq(secrets_report, i, i + Len(Section(m)) - 1) = Section(m)
             ELSE \A i \in DOMAIN secrets_report : secrets_report[i].module # m
    /\ \A i, j, n \in DOMAIN secrets_report :
          (i < j /\ j < n /\ secrets_report[i].module = secrets_report[n].module) =>
              secrets_report[j].module = secrets_report[i].module

\* one worker is writing its labels while a second waits for the lock, and
\* a third has appended its section and left
C26_Witness ==
    \E a, b, c \in 1..NumReportModules :
        /\ inspector[a].pc = "labels" /\ inspector[a].next = 2
        /\ inspector[b].pc = "lock"
        /\ inspector[c].pc = "done" /\ findings[c] # <<>>
        /\ Len(secrets_report) >= 5

-----------------------------------------------------------------------------
(* One do_voting call for the variable v1 of a function with the variables *)
(* v1 and v2, with the accepted outputs and the counters they incremented  *)
(* kept on record.                                                         *)

MaxTallySamples == 3

TallyVariables == <<"v1", "v2">>

\* what the oracle may answer: JSON objects (as the pairs of the text), a
\* text that is no JSON, or a failed call
TallyBodies ==
    { << <<"v1", "n1">> >>, << <<"v1", "n2">> >>,
      << <<"v1", "n1">>, <<"v2", "v2">> >>,
      << <<"v1", "n1">>, <<"v2", "n2">> >>, << <<"v2", "n2">>, <<"v1", "n1">> >>,
      << <<"v1", "v1">> >>, << <<"v1", "#5">> >>,
      << <<"v2", "n1">> >>, << <<"zz", "n1">> >> }

TallyResponses ==
    {Resp("object", FALSE, b, <<>>) : b \in TallyBodies}
    \cup {Resp("garbage", FALSE, <<>>, <<>>), Resp("exception", FALSE, <<>>, <<>>)}

\* the position of vote_counts that `vote_counts[vote_key] += 1` changed
IncrementedSlot(before, after) ==
    CHOOSE i \in DOMAIN after : i > Len(before) \/ after[i].n # before[i].n

IdleOthersOfTally ==
    UNCHANGED <<voteVars, pipeVars, textVars, rewriteVars, libVars, runVars, judgeVars,
                configVars, reportVars, clientVars, stageVars, driverVars, lateVars>>

\* One iteration of the while loop of do_voting (lines 259-316), with k at
\* its default.
TallySample ==
    /\ tally_pc = "vote"
    /\ tally_samples < MaxTallySamples
    /\ \E resp \in TallyResponses :
         LET got == GetVote(resp, TallyVariables, <<TallyVariables[1]>>)
             vote_key == JsonDumpsSorted(got.vote)
             counts == Increment(tally_counts, vote_key)
         IN  /\ tally_samples' = tally_samples + 1
             /\ IF ~got.is_valid
                THEN UNCHANGED <<tally_pc, tally_counts, tally_outputs, tally_slots>>
                ELSE /\ tally_counts' = counts
                     /\ tally_outputs' = Append(tally_outputs, resp.pairs)
                     /\ tally_slots' = Append(tally_slots, IncrementedSlot(tally_counts, counts))
                     /\ tally_pc' = IF HasWinner(counts, DefaultK) THEN "returned" ELSE "vote"
    /\ IdleOthersOfTally

InitTally ==
    /\ tally_pc = "vote"
    /\ tally_samples = 0
    /\ tally_counts = <<>>
    /\ tally_outputs = <<>>
    /\ tally_slots = <<>>
    /\ IdleVote /\ IdlePipe /\ IdleText /\ IdleRewrite /\ IdleLib
    /\ IdleRun /\ IdleJudge /\ IdleConfig
    /\ IdleReport /\ IdleClient /\ IdleStage /\ IdleDriver /\ IdleLate

NextTally == TallySample

SpecTally == InitTally /\ [][NextTally]_vars

\* json.dumps(output, sort_keys=True) of an accepted output as the oracle
\* gave it
OutputSerialization(pairs) == JsonDumpsSorted(JsonLoadsObject(pairs))

\* C27 as stated: two accepted outputs incremented the same counter iff
\* the key-sorted serializations of the outputs are equal.
C27_SameCounterIffSameSerialization ==
    \A i, j \in DOMAIN tally_outputs :
        (tally_slots[i] = tally_slots[j])
            <=> (OutputSerialization(tally_outputs[i]) = OutputSerialization(tally_outputs[j]))

\* the renames an output proposes: its entries whose value is a string
\* other than the key, whatever their order in the text
ProposedRenames(pairs) ==
    LET d == JsonLoadsObject(pairs)
    IN  {d[n] : n \in {x \in DOMAIN d : d[x][1] # d[x][2] /\ IsStr(d[x][2])}}

\* C27 amended: two accepted outputs incremented the same counter iff they
\* propose the same renames once identity mappings and non-string values
\* are left out, whatever the order of their keys.
C27_SameCounterIffSameRenames ==
    \A i, j \in DOMAIN tally_outputs :
        (tally_slots[i] = tally_slots[j])
            <=> (ProposedRenames(tally_outputs[i]) = ProposedRenames(tally_outputs[j]))

\* two outputs with the same two renames in different key order were counted
\* as one vote, and an output with another rename between them as a
\* different one
C27_Witness ==
    /\ Len(tally_outputs) = 3
    /\ tally_outputs[1] # tally_outputs[3]
    /\ Len(tally_outputs[1]) = 2 /\ Len(tally_outputs[3]) = 2
    /\ ProposedRenames(tally_outputs[1]) = ProposedRenames(tally_outputs[3])
    /\ Cardinality(ProposedRenames(tally_outputs[1])) = 2
    /\ tally_slots = <<1, 2, 1>>

-----------------------------------------------------------------------------
(* One module's RefactoryState through process_module: the type stage and  *)
(* the rewrite stage under _run_stage's retries, the rename stage with the *)
(* result of true_maker_rename for each function, and the generation.      *)

NumStageFunctions == 2

\* what type_recovery_agent may turn the oracle's answer into: proposals
\* for variables of the module, with the confidence in hundredths
TypeProposalLists ==
    { <<>>,
      <<[variable |-> "v1", proposed_type |-> "int", confidence |-> 50]>>,
      <<[variable |-> "v1", proposed_type |-> "int", confidence |-> 70]>>,
      <<[variable |-> "v1", proposed_type |-> "int", confidence |-> 90],
        [variable |-> "v2", proposed_type |-> "char", confidence |-> 60],
        [variable |-> "v1", proposed_type |-> "long", confidence |-> 80]>>,
      <<[variable |-> "v2", proposed_type |-> "char", confidence |-> 95],
        [variable |-> "v1", proposed_type |-> "int", confidence |-> 75]>> }

ConfidenceThreshold == 70

\* result["final_renames"] of true_maker_rename for one function
FinalRenamesResults ==
    { <<>>, << <<"v1", "n1">> >>, << <<"v2", "n2">> >>, << <<"v1", "n2">>, <<"v2", "n1">> >> }

\* what refactoring_agent may propose: per function, whether the braces of
\* the rewrite are paired
RefactoringProposalLists == { <<>>, <<FALSE>>, <<TRUE, FALSE>> }

\* state.get(key, default)
StateGet(st, key, default) == IF key \in DOMAIN st THEN st[key] ELSE default

\* state[key] = value
StateSet(st, key, value) ==
    [x \in DOMAIN st \cup {key} |-> IF x = key THEN value ELSE st[x]]

\* A slip in _run_stage: `state = updates` for `state.update(updates)`.
StateUpdate_Replace(st, updates) == updates

\* state.update(updates)
StateUpdate(st, updates) ==
    [x \in DOMAIN st \cup DOMAIN updates |-> IF x \in DOMAIN updates THEN updates[x] ELSE st[x]]

RECURSIVE CommitTypes(_, _)
\* the loop of type_recovery_validator over the proposals
CommitTypes(confirmed, proposals) ==
    IF proposals = <<>> THEN confirmed
    ELSE CommitTypes(IF Head(proposals).confidence >= ConfidenceThreshold
                     THEN DictSet(confirmed, Head(proposals).variable,
                                  Head(proposals).proposed_type)
                     ELSE confirmed,
                     Tail(proposals))

type_recovery_validator(st) ==
    [confirmed_types |-> CommitTypes(StateGet(st, "confirmed_types", <<>>),
                                     StateGet(st, "type_proposals", <<>>))]

\* refactoring_validator with the brace test already taken
StageRefactoringValidator(st) ==
    [confirmed_refactorings |->
        SelectSeq(StateGet(st, "refactoring_proposals", <<>>), LAMBDA paired : paired)]

\* the state process_module starts from (lines 173-185)
InitialState ==
    [type_proposals |-> <<>>, confirmed_types |-> <<>>,
     rename_proposals |-> <<>>, confirmed_renames |-> <<>>,
     refactoring_proposals |-> <<>>, confirmed_refactorings |-> <<>>,
     final_source_files |-> <<>>, final_header_files |-> <<>>,
     current_stage |-> "type_recovery", attempts |-> 0]

IdleOthersOfStage ==
    UNCHANGED <<voteVars, pipeVars, textVars, rewriteVars, libVars, runVars, judgeVars,
                configVars, reportVars, clientVars, driverVars, tallyVars, lateVars>>

\* `if stop_event and stop_event.is_set(): return {}` before a stage
CheckStage ==
    /\ stage_pc[1] = "check"
    /\ pause_event
    /\ stage_pc' = IF stop_event THEN <<"cancelled", "">> ELSE <<"run", stage_pc[2]>>
    /\ UNCHANGED <<module_state, stage_attempt, stage_fi, stage_all_renames, type_calls>>
    /\ IdleOthersOfStage

\* A slip in lines 251-252: the loop of the type stage has no break.
TypeAttempt_NoBreak ==
    /\ stage_pc = <<"run", "type_recovery">>
    /\ \E proposals \in TypeProposalLists :
         LET updates == [type_proposals |-> proposals, attempts |-> 1]
             st1 == StateUpdate(module_state, updates)
             st2 == StateUpdate(st1, type_recovery_validator(st1))
             last == stage_attempt + 1 >= max_attempts
         IN  /\ module_state' = st2
             /\ stage_attempt' = IF last THEN 0 ELSE stage_attempt + 1
             /\ stage_pc' = IF last THEN <<"check", "renaming">> ELSE stage_pc
    /\ type_calls' = type_calls + 1
    /\ UNCHANGED <<stage_fi, stage_all_renames>>
    /\ IdleOthersOfStage

\* one turn of _run_stage's loop for the type stage
TypeAttempt ==
    /\ stage_pc = <<"run", "type_recovery">>
    /\ \E proposals \in TypeProposalLists :
         LET updates == [type_proposals |-> proposals, attempts |-> 1]
             st1 == StateUpdate(module_state, updates)
             st2 == StateUpdate(st1, type_recovery_validator(st1))
             last == StateGet(st2, "confirmed_types", <<>>) # <<>>
                        \/ stage_attempt + 1 >= max_attempts
         IN  /\ module_state' = st2
             /\ stage_attempt' = IF last THEN 0 ELSE stage_attempt + 1
             /\ stage_pc' = IF last THEN <<"check", "renaming">> ELSE stage_pc
    /\ type_calls' = type_calls + 1
    /\ UNCHANGED <<stage_fi, stage_all_renames>>
    /\ IdleOthersOfStage

\* one turn of _run_renaming_stage's loop over the functions
RenameFunction ==
    /\ stage_pc = <<"run", "renaming">>
    /\ stage_fi <= NumStageFunctions
    /\ \E result \in FinalRenamesResults :
         stage_all_renames' = MergeRenames(stage_all_renames, result)
    /\ stage_fi' = stage_fi + 1
    /\ UNCHANGED <<module_state, stage_pc, stage_attempt, type_calls>>
    /\ IdleOthersOfStage

\* `state["confirmed_renames"] = all_renames` and the return
FinishRenaming ==
    /\ stage_pc = <<"run", "renaming">>
    /\ stage_fi > NumStageFunctions
    /\ module_state' = StateSet(module_state, "confirmed_renames", stage_all_renames)
    /\ stage_pc' = <<"check", "refactoring">>
    /\ UNCHANGED <<stage_attempt, stage_fi, stage_all_renames, type_calls>>
    /\ IdleOthersOfStage

\* one turn of _run_stage's loop for the rewrite stage
RewriteAttempt ==
    /\ stage_pc = <<"run", "refactoring">>
    /\ \E proposals \in RefactoringProposalLists :
         LET updates == [refactoring_proposals |-> proposals, attempts |-> 1]
             st1 == StateUpdate(module_state, updates)
             st2 == StateUpdate(st1, StageRefactoringValidator(st1))
             last == StateGet(st2, "confirmed_refactorings", <<>>) # <<>>
                        \/ stage_attempt + 1 >= max_attempts
         IN  /\ module_state' = st2
             /\ stage_attempt' = IF last THEN 0 ELSE stage_attempt + 1
             /\ stage_pc' = IF last THEN <<"check", "generation">> ELSE stage_pc
    /\ UNCHANGED <<stage_fi, stage_all_renames, type_calls>>
    /\ IdleOthersOfStage

\* state.update(source_code_generator(state)) and the return
GenerateSource ==
    /\ stage_pc = <<"run", "generation">>
    /\ module_state' = StateUpdate(module_state,
                          [final_source_files |-> << <<"Module.cs", "class">> >>,
                           final_header_files |-> <<>>,
                           current_stage |-> "complete"])
    /\ stage_pc' = <<"returned", "">>
    /\ UNCHANGED <<stage_attempt, stage_fi, stage_all_renames, type_calls>>
    /\ IdleOthersOfStage

InitStage ==
    /\ module_state = InitialState
    /\ stage_pc = <<"check", "type_recovery">>
    /\ stage_attempt = 0
    /\ stage_fi = 1
    /\ stage_all_renames = <<>>
    /\ type_calls = 0
    /\ IdleVote /\ IdlePipe /\ IdleText /\ IdleRewrite /\ IdleLib
    /\ IdleRun /\ IdleJudge /\ IdleConfig
    /\ IdleReport /\ IdleClient /\ IdleDriver /\ IdleTally /\ IdleLate

NextStageRun ==
    \/ CheckStage \/ TypeAttempt \/ RenameFunction \/ FinishRenaming
    \/ RewriteAttempt \/ GenerateSource \/ Stop

SpecStage == InitStage /\ [][NextStageRun]_vars

ConfirmedKeys(st, map) == DictKeys(StateGet(st, map, <<>>))

\* C28: in every step of a module run, each key of confirmed_types and each
\* key of confirmed_renames is still a key of that map after the step.
C28_ConfirmationsAreMonotone ==
    [][/\ ConfirmedKeys(module_state, "confirmed_types")
             \subseteq ConfirmedKeys(module_state', "confirmed_types")
       /\ ConfirmedKeys(module_state, "confirmed_renames")
             \subseteq ConfirmedKeys(module_state', "confirmed_renames")]_vars

\* the module run has returned after all its stages; both maps hold an
\* entry for each of the two variables
C28_Witness ==
    /\ stage_pc = <<"returned", "">>
    /\ ConfirmedKeys(module_state, "confirmed_types") = {"v1", "v2"}
    /\ ConfirmedKeys(module_state, "confirmed_renames") = {"v1", "v2"}
    /\ module_state.confirmed_refactorings # <<>>

-----------------------------------------------------------------------------
(* AgentLightningClient.log_transition called by several threads on one    *)
(* client, statement by statement.  `self.step_counter += 1` is a read     *)
(* followed by a write.                                                    *)

NumLoggers == 2
MaxCallsPerLogger == 2

Loggers == 1..NumLoggers

IdleLogger == [pc |-> "idle", calls |-> 0, counter |-> 0, trace |-> <<>>, latest |-> <<>>]

\* threading.Lock: `with self.lock` enters only when no thread holds it
ClientLockFree_Always(lock) == TRUE

ClientLockFree(lock) == lock = 0

IdleOthersOfClient ==
    UNCHANGED <<voteVars, pipeVars, textVars, rewriteVars, libVars, runVars, judgeVars,
                configVars, reportVars, stageVars, driverVars, tallyVars, lateVars>>

\* the call and `with self.lock:`
AcquireClientLock(t) ==
    /\ logger[t].pc = "idle"
    /\ logger[t].calls < MaxCallsPerLogger
    /\ ClientLockFree(client_lock)
    /\ client_lock' = t
    /\ logger' = [logger EXCEPT ![t].pc = "read"]
    /\ UNCHANGED <<step_counter, self_traces, trace_file>>
    /\ IdleOthersOfClient

\* `self.step_counter += 1`: the read
ReadCounter(t) ==
    /\ logger[t].pc = "read"
    /\ logger' = [logger EXCEPT ![t].pc = "write", ![t].counter = step_counter]
    /\ UNCHANGED <<client_lock, step_counter, self_traces, trace_file>>
    /\ IdleOthersOfClient

\* `self.step_counter += 1`: the write
WriteCounter(t) ==
    /\ logger[t].pc = "write"
    /\ step_counter' = logger[t].counter + 1
    /\ logger' = [logger EXCEPT ![t].pc = "make"]
    /\ UNCHANGED <<client_lock, self_traces, trace_file>>
    /\ IdleOthersOfClient

\* `trace = Trace(..., step_id=self.step_counter, ...)`: the calling thread
\* stands for the arguments of its call
MakeTrace(t) ==
    /\ logger[t].pc = "make"
    /\ logger' = [logger EXCEPT ![t].pc = "append",
                                ![t].trace = <<[step |-> step_counter, thread |-> t]>>]
    /\ UNCHANGED <<client_lock, step_counter, self_traces, trace_file>>
    /\ IdleOthersOfClient

\* `self.traces.append(trace)`
AppendTrace(t) ==
    /\ logger[t].pc = "append"
    /\ self_traces' = self_traces \o logger[t].trace
    /\ logger' = [logger EXCEPT ![t].pc = "latest"]
    /\ UNCHANGED <<client_lock, step_counter, trace_file>>
    /\ IdleOthersOfClient

\* _flush_to_disk: `latest = self.traces[-1]`
ReadLatest(t) ==
    /\ logger[t].pc = "latest"
    /\ logger' = [logger EXCEPT ![t].pc = "flush",
                                ![t].latest = <<self_traces[Len(self_traces)]>>]
    /\ UNCHANGED <<client_lock, step_counter, self_traces, trace_file>>
    /\ IdleOthersOfClient

\* _flush_to_disk: `f.write(json.dumps(record) + "\n")` on the file opened
\* for appending, and its close
WriteRecord(t) ==
    /\ logger[t].pc = "flush"
    /\ trace_file' = trace_file \o logger[t].latest
    /\ logger' = [logger EXCEPT ![t].pc = "release"]
    /\ UNCHANGED <<client_lock, step_counter, self_traces>>
    /\ IdleOthersOfClient

\* the end of `with self.lock:` and the return
ReleaseClientLock(t) ==
    /\ logger[t].pc = "release"
    /\ client_lock' = 0
    /\ logger' = [logger EXCEPT ![t].pc = "idle", ![t].calls = @ + 1]
    /\ UNCHANGED <<step_counter, self_traces, trace_file>>
    /\ IdleOthersOfClient

\* AgentLightningClient.__init__
InitClient ==
    /\ client_lock = 0
    /\ step_counter = 0
    /\ self_traces = <<>>
    /\ trace_file = <<>>
    /\ logger = [t \in Loggers |-> IdleLogger]
    /\ IdleVote /\ IdlePipe /\ IdleText /\ IdleRewrite /\ IdleLib
    /\ IdleRun /\ IdleJudge /\ IdleConfig
    /\ IdleReport /\ IdleStage /\ IdleDriver /\ IdleTally /\ IdleLate

NextClient ==
    \E t \in Loggers :
        \/ AcquireClientLock(t) \/ ReadCounter(t) \/ WriteCounter(t) \/ MakeTrace(t)
        \/ AppendTrace(t) \/ ReadLatest(t) \/ WriteRecord(t) \/ ReleaseClientLock(t)

SpecClient == InitClient /\ [][NextClient]_vars

\* the threads between the acquisition and the release of the client's lock
InsideLog == {t \in Loggers : logger[t].pc # "idle"}

\* the step ids of a log are 1, 2, 3, ... in append order
StepIdsConsecutive(log) == \A i \in DOMAIN log : log[i].step = i

IsPrefix(a, b) == Len(a) <= Len(b) /\ SubSeq(b, 1, Len(a)) = a

\* C29: in every step, at most one thread is inside log_transition's
\* locked block; the log file and the client's list grow by at most one
\* record and keep every record they held, unchanged and in place; and
\* their step ids are 1, 2, 3, ... in append order, none twice, none missing.
C29_LogIsAppendOnlyAndGapless ==
    [][/\ Cardinality(InsideLog') <= 1
       /\ IsPrefix(trace_file, trace_file') /\ Len(trace_file') <= Len(trace_file) + 1
       /\ IsPrefix(self_traces, self_traces') /\ Len(self_traces') <= Len(self_traces) + 1
       /\ StepIdsConsecutive(trace_file')
       /\ StepIdsConsecutive(self_traces')
       /\ IsPrefix(trace_file', self_traces')]_vars

\* both threads have logged twice, in alternation: four records are in
\* the file
C29_Witness ==
    /\ Len(trace_file) = 4
    /\ trace_file[1].thread # trace_file[2].thread
    /\ trace_file[3].thread # trace_file[4].thread
    /\ \A t \in Loggers : logger[t].calls = MaxCallsPerLogger

-----------------------------------------------------------------------------
(* main_pipeline_wrapper as the user interfaces call it: the decompiler    *)
(* child of run_ghidra_export, the checks after it, and the start of the   *)
(* refinement pipeline.                                                    *)

\* who calls main_pipeline_wrapper: launcher.run_analysis, or the
\* dashboard's AnalysisManager, which passes callbacks and max_workers
Entries == {"launcher", "dashboard"}

\* the keyword parameters of main_pipeline_wrapper (main.py 91)
WrapperParams == {"ghidra_path", "user_goal", "output_dir", "limit", "export_only",
                  "stop_event", "pause_event"}

\* the keyword arguments of the call
WrapperArgs(who) ==
    IF who = "launcher"
    THEN {"ghidra_path", "user_goal", "output_dir", "stop_event", "pause_event"}
    ELSE {"ghidra_path", "user_goal", "output_dir", "stop_event", "pause_event",
          "loot_callback", "consensus_callback", "graph_callback", "diff_callback",
          "max_workers"}

\* exit codes of the child: success, failure, killed by a signal
ExitCodes == {0, 1, 0 - 15}

\* A slip in lines 83-89: the export file is not looked for.
ExportFailed_IgnoresFile(exit_code, exists) == exit_code # <<0>>

\* `process.returncode != 0` or `not os.path.exists(output_json)`
ExportFailed(exit_code, exists) == exit_code # <<0>> \/ ~exists

IdleOthersOfDriver ==
    UNCHANGED <<voteVars, textVars, rewriteVars, libVars, runVars, judgeVars,
                configVars, reportVars, clientVars, stageVars, tallyVars, lateVars>>

\* the call of main_pipeline_wrapper, up to the Popen of the child
CallWrapper ==
    /\ driver_pc = "call"
    /\ driver_pc' = IF WrapperArgs(entry) \subseteq WrapperParams THEN "ghidra" ELSE "raised"
    /\ UNCHANGED <<entry, returncode, export_exists, export_only, pipeline_started,
                   stop_observed, pipeVars>>
    /\ IdleOthersOfDriver

\* a turn of the read loop that finds stop_event set: the child is
\* terminated and the loop is left
LoopSeesStop ==
    /\ driver_pc = "ghidra"
    /\ stop_event
    /\ stop_observed' = TRUE
    /\ driver_pc' = "after_loop"
    /\ UNCHANGED <<entry, returncode, export_exists, export_only, pipeline_started, pipeVars>>
    /\ IdleOthersOfDriver

\* a turn of the read loop that finds stop_event clear, the output at its
\* end and the child exited: the child may have written the export file
LoopSeesExit ==
    /\ driver_pc = "ghidra"
    /\ ~stop_event
    /\ stop_observed' = FALSE
    /\ \E exit_code \in ExitCodes, created \in BOOLEAN :
         /\ returncode' = <<exit_code>>
         /\ export_exists' = (export_exists \/ created)
    /\ driver_pc' = "after_loop"
    /\ UNCHANGED <<entry, export_only, pipeline_started, pipeVars>>
    /\ IdleOthersOfDriver

\* lines 80-89 of run_ghidra_export
AfterLoop ==
    /\ driver_pc = "after_loop"
    /\ stop_observed' = stop_event
    /\ driver_pc' = IF stop_event THEN "wrapper_check"
                    ELSE IF ExportFailed(returncode, export_exists) THEN "exited"
                    ELSE "wrapper_check"
    /\ UNCHANGED <<entry, returncode, export_exists, export_only, pipeline_started, pipeVars>>
    /\ IdleOthersOfDriver

\* lines 132-136 of main_pipeline_wrapper
WrapperCheck ==
    /\ driver_pc = "wrapper_check"
    /\ stop_observed' = stop_event
    /\ driver_pc' = IF stop_event \/ export_only THEN "returned" ELSE "start"
    /\ UNCHANGED <<entry, returncode, export_exists, export_only, pipeline_started, pipeVars>>
    /\ IdleOthersOfDriver

\* lines 138-142: the pipeline is built and its run is called
StartPipeline ==
    /\ driver_pc = "start"
    /\ pipeline_started' = TRUE
    /\ driver_pc' = "pipeline"
    /\ UNCHANGED <<entry, returncode, export_exists, export_only, stop_observed, pipeVars>>
    /\ IdleOthersOfDriver

\* RefactoryPipeline.run returns or raises
PipelineEnds ==
    /\ driver_pc = "pipeline"
    /\ driver_pc' \in {"returned", "raised"}
    /\ UNCHANGED <<entry, returncode, export_exists, export_only, pipeline_started,
                   stop_observed, pipeVars>>
    /\ IdleOthersOfDriver

\* AnalysisManager.stop / launcher.stop_execution while the driver is going on
StopDriver == driver_pc \notin {"returned", "raised", "exited"} /\ ~stop_event /\ Stop

\* the export file of an earlier run of the project may be there
InitDriver ==
    /\ entry \in Entries
    /\ driver_pc = "call"
    /\ returncode = <<>>
    /\ export_exists \in BOOLEAN
    /\ export_only \in BOOLEAN
    /\ pipeline_started = FALSE
    /\ stop_observed = FALSE
    /\ IdleVote /\ IdlePipe /\ IdleText /\ IdleRewrite /\ IdleLib
    /\ IdleRun /\ IdleJudge /\ IdleConfig
    /\ IdleReport /\ IdleClient /\ IdleStage /\ IdleTally /\ IdleLate

NextDriver ==
    \/ CallWrapper \/ LoopSeesStop \/ LoopSeesExit \/ AfterLoop \/ WrapperCheck
    \/ StartPipeline \/ PipelineEnds \/ StopDriver

SpecDriver == InitDriver /\ [][NextDriver]_vars

DriverEnded == driver_pc \in {"returned", "raised", "exited"}

\* C30: the pipeline has been started only after the child exited with
\* code 0, with the export file there, and with the driver's latest look
\* at the stop event finding it clear; a run whose child exited non-zero
\* or left no export file, and that saw no cancellation, ends in the fatal
\* exit; a run that saw the cancellation ends by returning, the pipeline
\* not started.
C30_PipelineStartsOnlyAfterGoodExport ==
    /\ pipeline_started =>
          (returncode = <<0>> /\ export_exists /\ ~stop_observed)
    /\ (DriverEnded /\ returncode # <<>> /\ ~stop_observed
          /\ (returncode # <<0>> \/ ~export_exists)) =>
             (driver_pc = "exited" /\ ~pipeline_started)
    /\ stop_observed =>
          (~pipeline_started /\ driver_pc \in {"after_loop", "wrapper_check", "returned"})

\* the child exited with code 0 and wrote the export file, no cancellation
\* was seen, and the pipeline has been started
C30_Witness ==
    /\ pipeline_started
    /\ driver_pc = "pipeline"
    /\ returncode = <<0>> /\ export_exists /\ ~export_only

-----------------------------------------------------------------------------
(* measure_model_difficulty (calibration.py): one oracle call per test     *)
(* sample, the red-flag guard on the raw answer, verify_logic_sanity, and  *)
(* the estimate p with the feasibility gate.                               *)

MaxCalibSamples == 3

\* sample['variables'] of every test sample
CalibVariables == <<"v1", "v2">>

\* what llm.invoke does for a test sample
CalibResponses ==
    { Resp("garbage", FALSE, <<>>, <<>>),
      Resp("object", FALSE, << <<"v1", "n1">> >>, <<>>),
      Resp("object", FALSE, << <<"zz", "n1">> >>, <<>>),
      Resp("object", TRUE, << <<"v1", "n1">> >>, <<>>),
      Resp("exception", FALSE, <<>>, <<>>) }

RECURSIVE SeqsUpTo(_, _)
SeqsUpTo(S, n) ==
    IF n = 0 THEN {<<>>}
    ELSE LET shorter == SeqsUpTo(S, n - 1)
         IN  shorter \cup {Append(q, x) : q \in shorter, x \in S}

\* guard.check_red_flags(response.content, None), line 55: the length test
\* of lines 186-188, then `if parsed_data is None` of lines 190-192
GuardOnRawAnswer(resp) ==
    IF resp.long THEN [ok |-> FALSE, reason |-> Reason("response_too_long", "")]
    ELSE [ok |-> FALSE, reason |-> Reason("invalid_json_format", "")]

\* verify_logic_sanity: json.loads, every key an existing variable; any
\* exception gives False
verify_logic_sanity(resp, existing_vars) ==
    /\ resp.kind = "object"
    /\ DictKeys(JsonLoadsObject(resp.pairs)) \subseteq SeqToSet(existing_vars)

IdleOthersOfCalib ==
    UNCHANGED <<voteVars, pipeVars, textVars, rewriteVars, libVars, runVars, judgeVars,
                configVars, reportVars, clientVars, stageVars, driverVars, tallyVars,
                channelVars, agentVars, mergeVars>>

\* one turn of the loop of lines 37-70 with stop_event clear
CalibSample ==
    /\ calib_pc = "loop"
    /\ calib_i <= Len(calib_samples)
    /\ ~stop_event
    /\ LET resp == calib_samples[calib_i]
           counted == /\ resp.kind # "exception"
                      /\ GuardOnRawAnswer(resp).ok
                      /\ verify_logic_sanity(resp, CalibVariables)
       IN  success_count' = IF counted THEN success_count + 1 ELSE success_count
    /\ calib_invocations' = calib_invocations + 1
    /\ calib_i' = calib_i + 1
    /\ UNCHANGED <<calib_samples, calib_pc, p_score, is_feasible>>
    /\ IdleOthersOfCalib

\* the end of the loop, by exhaustion or by the break of lines 38-40, and
\* lines 73-79
CalibReturn ==
    /\ calib_pc = "loop"
    /\ calib_i > Len(calib_samples) \/ stop_event
    /\ LET total_samples == Len(calib_samples)
           p == IF total_samples > 0 THEN <<success_count, total_samples>> ELSE <<0, 1>>
       IN  /\ p_score' = p
           /\ is_feasible' = (2 * p[1] > p[2])
    /\ calib_pc' = "returned"
    /\ UNCHANGED <<calib_samples, calib_i, success_count, calib_invocations>>
    /\ IdleOthersOfCalib

\* AnalysisManager.stop / launcher.stop_execution while the calibration runs
StopCalib == calib_pc = "loop" /\ ~stop_event /\ Stop

InitCalib ==
    /\ calib_samples \in SeqsUpTo(CalibResponses, MaxCalibSamples)
    /\ calib_i = 1
    /\ success_count = 0
    /\ calib_invocations = 0
    /\ calib_pc = "loop"
    /\ p_score = <<0, 1>>
    /\ is_feasible = FALSE
    /\ IdleVote /\ IdlePipe /\ IdleText /\ IdleRewrite /\ IdleLib
    /\ IdleRun /\ IdleJudge /\ IdleConfig
    /\ IdleReport /\ IdleClient /\ IdleStage /\ IdleDriver /\ IdleTally
    /\ IdleChannel /\ IdleAgent /\ IdleMerge

NextCalib == CalibSample \/ CalibReturn \/ StopCalib

SpecCalib == InitCalib /\ [][NextCalib]_vars

\* a sample whose output parses as a JSON object, passes the red-flag guard
\* and names only existing variables
SamplePasses(resp) ==
    /\ resp.kind = "object"
    /\ check_red_flags(resp, <<>>).ok
    /\ DictKeys(JsonLoadsObject(resp.pairs)) \subseteq SeqToSet(CalibVariables)

PassingSamples == {i \in DOMAIN calib_samples : SamplePasses(calib_samples[i])}

\* C31: a calibration that returned without cancellation called the oracle
\* once per sample, and returned p equal to the fraction of samples whose
\* output parses as JSON, passes the red-flag guard and names only existing
\* variables, and is_feasible true exactly when p > 0.5.
C31_CalibratorReturnsPassingFraction ==
    (calib_pc = "returned" /\ ~stop_event) =>
        /\ calib_invocations = Len(calib_samples)
        /\ p_score[1] * Len(calib_samples) = Cardinality(PassingSamples) * p_score[2]
        /\ is_feasible <=> (2 * p_score[1] > p_score[2])

-----------------------------------------------------------------------------
(* The dashboard's consensus and graph channels during the run of one      *)
(* module: do_voting reports its tally through the consensus callback      *)
(* after every counted vote, process_module sends the call-graph snapshot  *)
(* after the generation, and update_ui drains both queues.                 *)

MaxChannelSamples == 3

\* state["module"]["functions"] of the module
ChannelFunctions ==
    << [name |-> "f1", calls |-> {"f2"}, variables |-> <<"v1", "v2">>],
       [name |-> "f2", calls |-> {}, variables |-> <<>>] >>

\* Librarian.get_visualization_data: a node per function with its variable
\* count, a link per edge of the (bidirectional) call graph
get_visualization_data(fs) ==
    LET names == {fs[i].name : i \in DOMAIN fs}
        edges == {<<fs[i].name, c>> : i \in DOMAIN fs, c \in names}
        called == {e \in edges : \E i \in DOMAIN fs : fs[i].name = e[1] /\ e[2] \in fs[i].calls}
    IN  [nodes |-> [i \in DOMAIN fs |-> [name |-> fs[i].name, value |-> Len(fs[i].variables)]],
         links |-> {[source |-> e[1], target |-> e[2]] : e \in called}
                   \cup {[source |-> e[2], target |-> e[1]] : e \in called}]

\* the event of lines 290-299 of do_voting
TallyEvent(counts) ==
    [categories |-> [i \in DOMAIN counts |-> counts[i].key],
     values |-> [i \in DOMAIN counts |-> counts[i].n]]

\* data.get(key, [])
EventGet(data, key) == IF key \in DOMAIN data THEN data[key] ELSE <<>>

\* the callbacks the dashboard hands to the pipeline: each takes one
\* argument and puts it on its queue
on_consensus(data) == consensus_queue' = Append(consensus_queue, data)

on_graph(data) == graph_queue' = Append(graph_queue, data)

IdleOthersOfChannel ==
    UNCHANGED <<voteVars, pipeVars, textVars, rewriteVars, libVars, runVars, judgeVars,
                configVars, reportVars, clientVars, stageVars, driverVars, tallyVars,
                calibVars, agentVars, mergeVars>>

\* One iteration of the while loop of do_voting with the consensus
\* callback: callback("CONSENSUS_UPDATE", {...}) raises TypeError on the
\* one-argument on_consensus, and the except branch calls callback({...}).
ChannelSample ==
    /\ channel_pc = "voting"
    /\ channel_samples < MaxChannelSamples
    /\ \E resp \in TallyResponses :
         LET got == GetVote(resp, TallyVariables, <<TallyVariables[1]>>)
             counts == Increment(channel_counts, JsonDumpsSorted(got.vote))
         IN  /\ channel_samples' = channel_samples + 1
             /\ IF ~got.is_valid
                THEN UNCHANGED <<channel_pc, channel_counts, consensus_queue>>
                ELSE /\ channel_counts' = counts
                     /\ on_consensus(TallyEvent(counts))
                     /\ channel_pc' = IF HasWinner(counts, DefaultK) THEN "post" ELSE "voting"
    /\ UNCHANGED <<graph_queue, consensus_chart, star_map>>
    /\ IdleOthersOfChannel

\* The vote has ended (every further sample of a vote without a winner
\* is a rejected one, which reports nothing); after the generation,
\* lines 225-230 of process_module: consensus_callback(vis_data)
PostProcessing ==
    /\ \/ channel_pc = "post"
       \/ channel_pc = "voting" /\ channel_samples = MaxChannelSamples
    /\ on_consensus(get_visualization_data(ChannelFunctions))
    /\ channel_pc' = "returned"
    /\ UNCHANGED <<graph_queue, channel_counts, channel_samples, consensus_chart, star_map>>
    /\ IdleOthersOfChannel

\* update_ui, parts 3 and 4: each non-empty queue is drained and its
\* latest event is shown
update_ui ==
    /\ consensus_queue # <<>> \/ graph_queue # <<>>
    /\ IF consensus_queue # <<>>
       THEN LET data == consensus_queue[Len(consensus_queue)]
            IN  /\ consensus_chart' = <<EventGet(data, "categories"), EventGet(data, "values")>>
                /\ consensus_queue' = <<>>
       ELSE UNCHANGED <<consensus_chart, consensus_queue>>
    /\ IF graph_queue # <<>>
       THEN LET data == graph_queue[Len(graph_queue)]
            IN  /\ star_map' = <<EventGet(data, "nodes"), EventGet(data, "links")>>
                /\ graph_queue' = <<>>
       ELSE UNCHANGED <<star_map, graph_queue>>
    /\ UNCHANGED <<channel_pc, channel_counts, channel_samples>>
    /\ IdleOthersOfChannel

InitChannel ==
    /\ consensus_queue = <<>>
    /\ graph_queue = <<>>
    /\ channel_pc = "voting"
    /\ channel_counts = <<>>
    /\ channel_samples = 0
    /\ consensus_chart = <<>>
    /\ star_map = <<>>
    /\ IdleVote /\ IdlePipe /\ IdleText /\ IdleRewrite /\ IdleLib
    /\ IdleRun /\ IdleJudge /\ IdleConfig
    /\ IdleReport /\ IdleClient /\ IdleStage /\ IdleDriver /\ IdleTally
    /\ IdleCalib /\ IdleAgent /\ IdleMerge

NextChannel == ChannelSample \/ PostProcessing \/ update_ui

SpecChannel == InitChannel /\ [][NextChannel]_vars

IsTallyEvent(data) == DOMAIN data = {"categories", "values"}

IsGraphSnapshot(data) == DOMAIN data = {"nodes", "links"}

\* C32: every event on the consensus channel is a {categories, values}
\* tally, and a {nodes, links} call-graph snapshot is on no channel but the
\* graph channel.
C32_ChannelsCarryTheirOwnShape ==
    /\ \A i \in DOMAIN consensus_queue : IsTallyEvent(consensus_queue[i])
    /\ \A i \in DOMAIN consensus_queue : ~IsGraphSnapshot(consensus_queue[i])

-----------------------------------------------------------------------------
(* cluster_functions against the connected components of the call graph,   *)
(* and the utilities modules it makes of the functions left over.          *)

RECURSIVE Closure(_)
\* the names reachable from the names of S along the call graph
Closure(S) ==
    LET T == S \cup UNION { call_graph[x] : x \in S }
    IN  IF T = S THEN S ELSE Closure(T)

\* the connected component of the call graph that holds the name n
Component(n) == Closure({n})

NamesDistinct ==
    \A i, j \in DOMAIN functions : functions[i].name = functions[j].name => i = j

IsUtilities(mod) ==
    StartsWith(mod.module_name, <<"u", "t", "i", "l", "i", "t", "i", "e", "s", "_">>)

MemberNames(mod) == { mod.functions[j].name : j \in DOMAIN mod.functions }

\* the functions of the input whose name is in S
FunctionsNamed(S) == { functions[i] : i \in {j \in DOMAIN functions : functions[j].name \in S} }

\* C33: for an input with distinct function names whose call-graph
\* components all have at most int(1.5 * max_module_size) functions, each
\* component of at least min_module_size functions is the member set of
\* exactly one module, which lists each of its functions once, and every
\* module that holds a function of a smaller component is a utilities one.
C33_ComponentsBecomeModules ==
    (/\ lpc = "done"
     /\ NamesDistinct
     /\ \A n \in InputNames : Cardinality(Component(n)) <= (3 * max_module_size) \div 2) =>
        \A n \in InputNames :
            IF Cardinality(Component(n)) >= min_module_size
            THEN /\ Cardinality({ m \in DOMAIN modules :
                                    MemberNames(modules[m]) \cap Component(n) # {} }) = 1
                 /\ \E m \in DOMAIN modules :
                        /\ ~IsUtilities(modules[m])
                        /\ SeqToSet(modules[m].functions) = FunctionsNamed(Component(n))
                        /\ Len(modules[m].functions) = Cardinality(Component(n))
            ELSE \A m \in DOMAIN modules :
                    n \in MemberNames(modules[m]) => IsUtilities(modules[m])

\* the input a calling b, b, c with min_module_size 2: the component {a, b}
\* is one module and c is alone in utilities_1
C33_Witness ==
    /\ lpc = "done"
    /\ NamesDistinct
    /\ min_module_size = 2 /\ max_module_size = 2
    /\ Len(functions) = 3
    /\ Len(modules) = 2
    /\ ~IsUtilities(modules[1]) /\ Len(modules[1].functions) = 2
    /\ IsUtilities(modules[2]) /\ Len(modules[2].functions) = 1
    /\ Cardinality(Component(modules[1].functions[1].name)) = 2

-----------------------------------------------------------------------------
(* The agent of the pipeline's rename stage: _run_renaming_stage creates   *)
(* one agent for the module and hands it to true_maker_rename for every    *)
(* function; each per-variable vote runs with the k of that agent's        *)
(* config.  A function is given by the number of its variables.            *)

NumAgentFunctions == 2

\* DEFAULT_TARGET_RELIABILITY and DEFAULT_ERROR_RATE, in hundredths
DefaultTargetReliability == 95
DefaultErrorRate == 2

\* the default of create_maker_agent's parameter total_steps
DefaultTotalSteps == 1

\* len(func["variables"]) of a function: none, a few, or more than a
\* hundred, as decompiled functions with many temporaries have
VariableCounts == {0, 2, 123, 124}

\* MakerConfig(..., total_steps=steps) for the pipeline's reliability and
\* error rate, steps being 1: t ** (1 / s) is t itself
MakerConfigOfStage(steps) ==
    [total_steps |-> Max(1, steps),
     k |-> CHOOSE j \in _calculate_k_min(Clamp(DefaultErrorRate), DefaultTargetReliability).values :
               TRUE]

IdleOthersOfAgent ==
    UNCHANGED <<voteVars, pipeVars, textVars, rewriteVars, libVars, runVars, judgeVars,
                configVars, reportVars, clientVars, stageVars, driverVars, tallyVars,
                calibVars, channelVars, mergeVars>>

\* lines 265-273 of _run_renaming_stage: create_maker_agent is called
\* without total_steps
CreateAgent ==
    /\ rename_pc = "create"
    /\ LET config == MakerConfigOfStage(DefaultTotalSteps)
       IN  /\ agent_total_steps' = config.total_steps
           /\ agent_k' = config.k
    /\ rename_pc' = "function"
    /\ UNCHANGED <<variable_counts, rename_fi, rename_vi, used_k>>
    /\ IdleOthersOfAgent

\* the head of true_maker_rename, lines 43-60, called with the agent: a
\* function without variables returns at once, and with an agent given
\* `config = agent.config` is all that happens
EnterFunction ==
    /\ rename_pc = "function"
    /\ rename_fi <= Len(variable_counts)
    /\ LET total == variable_counts[rename_fi]
       IN  IF total = 0
           THEN /\ rename_fi' = rename_fi + 1
                /\ UNCHANGED <<rename_pc, rename_vi>>
           ELSE /\ rename_pc' = "vote"
                /\ rename_vi' = 1
                /\ UNCHANGED rename_fi
    /\ UNCHANGED <<variable_counts, agent_total_steps, agent_k, used_k>>
    /\ IdleOthersOfAgent

\* one turn of the loop over the variables: agent.do_voting runs with
\* self.config.k
VoteOnVariable ==
    /\ rename_pc = "vote"
    /\ used_k' = [used_k EXCEPT ![rename_fi] = @ \cup {agent_k}]
    /\ IF rename_vi < variable_counts[rename_fi]
       THEN /\ rename_vi' = rename_vi + 1
            /\ UNCHANGED <<rename_pc, rename_fi>>
       ELSE /\ rename_pc' = "function"
            /\ rename_fi' = rename_fi + 1
            /\ rename_vi' = 1
    /\ UNCHANGED <<variable_counts, agent_total_steps, agent_k>>
    /\ IdleOthersOfAgent

\* the end of the loop over the functions
LeaveRenaming ==
    /\ rename_pc = "function"
    /\ rename_fi > Len(variable_counts)
    /\ rename_pc' = "returned"
    /\ UNCHANGED <<variable_counts, agent_total_steps, agent_k, rename_fi, rename_vi, used_k>>
    /\ IdleOthersOfAgent

InitAgent ==
    /\ variable_counts \in [1..NumAgentFunctions -> VariableCounts]
    /\ agent_total_steps = 0
    /\ agent_k = 0
    /\ rename_pc = "create"
    /\ rename_fi = 1
    /\ rename_vi = 1
    /\ used_k = [f \in 1..NumAgentFunctions |-> {}]
    /\ IdleVote /\ IdlePipe /\ IdleText /\ IdleRewrite /\ IdleLib
    /\ IdleRun /\ IdleJudge /\ IdleConfig
    /\ IdleReport /\ IdleClient /\ IdleStage /\ IdleDriver /\ IdleTally
    /\ IdleCalib /\ IdleChannel /\ IdleMerge

NextAgent == CreateAgent \/ EnterFunction \/ VoteOnVariable \/ LeaveRenaming

SpecAgent == InitAgent /\ [][NextAgent]_vars

\* The largest s for which j votes ahead suffice at t = 0.95 and error
\* rate 0.02: the largest s with (1 + (0.02 / 0.98) ** j) ** s <= 1 / 0.95,
\* for j = 1, 2, 3.
LargestStepsFor == <<2, 123, 6034>>

\* the k formula at t = 0.95 and error rate 0.02 for s steps:
\* max(2, ceil(ln(t ** (-1 / s) - 1) / ln((1 - p) / p)))
KFormula(s) ==
    Max(MinK, CHOOSE j \in 1..4 :
                 /\ j <= 3 => s <= LargestStepsFor[j]
                 /\ \A i \in 1..(j - 1) : s > LargestStepsFor[i])

\* C34: every per-variable vote of the rename stage has run with the k
\* that the k formula gives for s = the number of variables of the
\* function the vote belongs to.
C34_VoteUsesKOfVariableCount ==
    \A f \in DOMAIN used_k :
        \A kk \in used_k[f] : kk = KFormula(variable_counts[f])

-----------------------------------------------------------------------------
(* The temperature of the samples of one vote.                             *)

\* the step takes a sample of the vote in progress
TakesSample == pc = "vote" /\ sample_count < max_samples /\ last_sample'.called

\* C35: a sample taken while the sample counter is at most 20 is taken at
\* the configured temperature and a sample taken once the counter exceeds
\* 20 at temperature 0; and once a sample of a vote has been taken at
\* temperature 0, every later sample of that vote is taken at temperature 0.
C35_TemperatureDecaysOnce ==
    [][TakesSample =>
          /\ sample_count <= 20 => last_temp' = "configured"
          /\ sample_count > 20 => last_temp' = "zero"
          /\ (sample_count >= 1 /\ last_temp = "zero") => last_temp' = "zero"]_vars

\* a vote without a winner after more than 21 samples, the latest of them
\* taken at temperature 0, with two candidates counted
C35_Witness ==
    /\ pc = "vote"
    /\ sample_count > 22
    /\ last_temp = "zero"
    /\ last_sample.called
    /\ Len(vote_counts) >= 2

-----------------------------------------------------------------------------
(* Cancellation at the suspension point of a stage boundary.               *)

\* C36: a worker that was blocked on the pause signal at a stage boundary
\* when cancellation was asserted returns without starting the next stage:
\* no step takes it from that wait to the work of a stage.
C36_CancelledAtBoundaryStartsNoStage ==
    [][\A w \in Workers :
          (worker[w].phase = "wait" /\ worker[w].stopped_in_wait)
              => worker'[w].phase # "work"]_vars

-----------------------------------------------------------------------------
(* The attempts of the type stage of one module.                           *)

TypeStageLeft == stage_pc[2] \in {"renaming", "refactoring", "generation"} \/ stage_pc[1] = "returned"

\* C37: for a module that gets to the type stage, _run_stage calls the
\* type-recovery agent at least once and at most 3 times, and never again
\* once confirmed_types is non-empty: after every step the count is at
\* most 3, it is at least 1 when the type stage is over, and a step that
\* starts from a non-empty confirmed_types makes no call.
C37_TypeRecoveryAttempts ==
    [][/\ type_calls' <= 3
       /\ TypeStageLeft' => type_calls' >= 1
       /\ StateGet(module_state, "confirmed_types", <<>>) # <<>> => type_calls' = type_calls]_vars

\* the third attempt was the first to confirm a type, and the module is in
\* its later stages
C37_Witness ==
    /\ type_calls = 3
    /\ StateGet(module_state, "confirmed_types", <<>>) # <<>>
    /\ stage_pc = <<"run", "refactoring">>

-----------------------------------------------------------------------------
(* The utilities modules of cluster_functions.                             *)

\* the modules made of clusters, and the utilities modules, in their order
ClusterModules == SelectSeq(modules, LAMBDA mod : ~IsUtilities(mod))

UtilitiesModules == SelectSeq(modules, IsUtilities)

RECURSIVE ConcatFunctions(_)
ConcatFunctions(mods) ==
    IF mods = <<>> THEN <<>> ELSE Head(mods).functions \o ConcatFunctions(Tail(mods))

\* the names of the functions that a cluster of at least min_module_size
\* took
ClusteredNames == UNION { MemberNames(ClusterModules[m]) : m \in DOMAIN ClusterModules }

\* C38: the functions whose name is in no cluster of at least
\* min_module_size functions are emitted in input order in the modules
\* utilities_1, utilities_2, ..., numbered consecutively from 1 and each
\* of at most max_module_size functions (and of at least one); an input
\* of one function, with min_module_size above 1, gives the single module
\* utilities_1 that holds it.
C38_UtilitiesModules ==
    lpc = "done" =>
        /\ ConcatFunctions(UtilitiesModules)
              = SelectSeq(functions, LAMBDA f : f.name \notin ClusteredNames)
        /\ \A i \in DOMAIN UtilitiesModules :
              /\ UtilitiesModules[i].module_name = UtilitiesName(i)
              /\ Len(UtilitiesModules[i].functions) \in 1..max_module_size
        /\ (Len(functions) = 1 /\ min_module_size > 1) =>
              modules = << [module_name |-> UtilitiesName(1), functions |-> functions] >>

\* three functions that call nothing, min_module_size 2 and max_module_size
\* 1: utilities_1, utilities_2 and utilities_3 hold one function each, in
\* input order
C38_Witness ==
    /\ lpc = "done"
    /\ min_module_size = 2 /\ max_module_size = 1
    /\ Len(functions) = 3
    /\ NamesDistinct
    /\ Len(modules) = 3
    /\ \A i \in 1..3 : /\ modules[i].module_name = UtilitiesName(i)
                       /\ modules[i].functions = <<functions[i]>>

-----------------------------------------------------------------------------
(* Identity-only answers in a vote.                                        *)

\* the answer is a short JSON object that parses to {var_name: var_name}
IdentityOnly(resp, var_name) ==
    /\ resp.kind = "object"
    /\ ~resp.long
    /\ JsonLoadsObject(resp.pairs) = << <<var_name, var_name>> >>

EmptyMapKey == JsonDumpsSorted(<<>>)

\* vote_counts after the step, whether do_voting returned in it or not
CountsAfter == IF last_return'.via = "margin" THEN last_return'.counts ELSE vote_counts'

\* C39: a sample answered with only the identity mapping of the voted
\* variable is accepted, logged with reward +0.1 and counted as one vote
\* for the empty rename map and for nothing else; do_voting returns on it
\* exactly when the margin test that every candidate is put to holds for
\* the counts; and when a vote returns the empty map as its winner, the
\* voted variable has no entry in final_renames.
C39_IdentityVoteCountsForEmptyMap ==
    [][/\ (TakesSample /\ IdentityOnly(last_sample'.answer, CurVars[vi])) =>
             /\ last_sample'.is_valid
             /\ last_sample'.logged = Trace(RewardValid, "VOTING_POOL", Reason("", ""))
             /\ CountOf(CountsAfter, EmptyMapKey) = CountOf(vote_counts, EmptyMapKey) + 1
             /\ \A i \in DOMAIN vote_counts :
                   vote_counts[i].key # EmptyMapKey =>
                       CountOf(CountsAfter, vote_counts[i].key) = vote_counts[i].n
             /\ Len(CountsAfter) <= Len(vote_counts) + 1
             /\ (last_return'.via = "margin") <=> HasWinner(CountsAfter, k)
       /\ (pc = "vote" /\ last_return'.via # "none" /\ ~last_return'.is_none
              /\ last_return'.winner = <<>>) =>
             ~DictHas(final_renames', CurVars[vi])]_vars

\* the empty map has just won a vote by the margin against a real rename,
\* on an identity-only answer, and the function has no rename
C39_Witness ==
    /\ last_return.via = "margin"
    /\ ~last_return.is_none
    /\ last_return.winner = <<>>
    /\ Len(last_return.counts) = 2
    /\ last_sample.called
    /\ last_sample.answer.pairs = << <<"v1", "v1">> >>
    /\ last_sample.logged = Trace(RewardValid, "VOTING_POOL", Reason("", ""))
    /\ final_renames = <<>>

-----------------------------------------------------------------------------
(* The renames of one module: _run_renaming_stage merges the renames of    *)
(* every function into one map, and refactoring_agent applies that map to  *)
(* the code of every function.  Names and code are texts.                  *)

NumMergeFunctions == 3

\* the functions a module may hold: code with or without the variable a
FunctionUnits ==
    { [code |-> <<"a", "=", "x", ";">>, variables |-> << <<"a">>, <<"x">> >>],
      [code |-> <<"a", "+", "a">>, variables |-> << <<"a">> >>],
      [code |-> <<"x", ";">>, variables |-> << <<"x">> >>] }

\* the new names the votes may settle on
VotedNames == { <<"b">>, <<"c">> }

\* result["final_renames"] of true_maker_rename for a function: nothing,
\* or a rename of its variable a
RenameResults(func) ==
    {<<>>} \cup { << <<v, n>> >> : v \in SeqToSet(func.variables) \cap {<<"a">>}, n \in VotedNames }

\* the calls of line 234 for a map of renames, in the order of the map
RenameEdits(d) == [i \in DOMAIN d |-> RenameEdit(d[i][1], d[i][2])]

IdleOthersOfMerge ==
    UNCHANGED <<voteVars, pipeVars, textVars, rewriteVars, libVars, runVars, judgeVars,
                configVars, reportVars, clientVars, stageVars, driverVars, tallyVars,
                calibVars, channelVars, agentVars>>

\* one turn of the loop of _run_renaming_stage (lines 275-292)
MergeFunction ==
    /\ merge_pc = "renaming"
    /\ merge_fi <= Len(unit_list)
    /\ \E result \in RenameResults(unit_list[merge_fi]) :
         /\ unit_renames' = Append(unit_renames, result)
         /\ merge_all' = MergeRenames(merge_all, result)
    /\ merge_fi' = merge_fi + 1
    /\ UNCHANGED <<unit_list, merge_confirmed, merge_pc, merge_prompts, merge_proposals>>
    /\ IdleOthersOfMerge

\* `state["confirmed_renames"] = all_renames` (line 301)
MergeFinish ==
    /\ merge_pc = "renaming"
    /\ merge_fi > Len(unit_list)
    /\ merge_confirmed' = merge_all
    /\ merge_pc' = "rewrite"
    /\ UNCHANGED <<unit_list, unit_renames, merge_all, merge_fi, merge_prompts, merge_proposals>>
    /\ IdleOthersOfMerge

\* refactoring_agent for the module (lines 213-280), no types confirmed
MergeRewrite ==
    /\ merge_pc = "rewrite"
    /\ LET es == RenameEdits(merge_confirmed)
       IN  /\ merge_prompts' = [i \in DOMAIN unit_list |->
                                   Truncate(ApplyEdits(unit_list[i].code, es))]
           /\ \E resps \in [DOMAIN unit_list -> RewriteResponses] :
                merge_proposals' = [i \in DOMAIN unit_list |->
                                       ProposalFor(i, unit_list[i].code, es, resps[i])]
    /\ merge_pc' = "done"
    /\ UNCHANGED <<unit_list, unit_renames, merge_all, merge_confirmed, merge_fi>>
    /\ IdleOthersOfMerge

InitMerge ==
    /\ unit_list \in [1..NumMergeFunctions -> FunctionUnits]
    /\ unit_renames = <<>>
    /\ merge_all = <<>>
    /\ merge_confirmed = <<>>
    /\ merge_fi = 1
    /\ merge_pc = "renaming"
    /\ merge_prompts = <<>>
    /\ merge_proposals = <<>>
    /\ IdleVote /\ IdlePipe /\ IdleText /\ IdleRewrite /\ IdleLib
    /\ IdleRun /\ IdleJudge /\ IdleConfig
    /\ IdleReport /\ IdleClient /\ IdleStage /\ IdleDriver /\ IdleTally
    /\ IdleCalib /\ IdleChannel /\ IdleAgent

NextMerge == MergeFunction \/ MergeFinish \/ MergeRewrite

SpecMerge == InitMerge /\ [][NextMerge]_vars

\* the functions whose vote produced a rename of the variable v
Renamers(v) == { i \in DOMAIN unit_renames : DictHas(unit_renames[i], v) }

\* text with every character that is the one-character name v replaced by
\* the one-character name n
Renamed(text, v, n) == [i \in DOMAIN text |-> IF <<text[i]>> = v THEN n[1] ELSE text[i]]

\* C40: confirmed_renames has one entry per variable name; when the votes
\* of two or more functions of the module produced a rename of a variable
\* v, confirmed_renames[v] is the rename of the last of these functions in
\* module order; and the rewrite stage replaces v by that one name in the
\* code of every function of the module, whatever the function's own vote.
C40_LaterFunctionWinsForWholeModule ==
    merge_pc \in {"rewrite", "done"} =>
        /\ \A i, j \in DOMAIN merge_confirmed :
              merge_confirmed[i][1] = merge_confirmed[j][1] => i = j
        /\ \A v \in {<<"a">>} :
              Renamers(v) # {} =>
                 LET last == CHOOSE i \in Renamers(v) : \A j \in Renamers(v) : j <= i
                 IN  /\ DictHas(merge_confirmed, v)
                     /\ DictGet(merge_confirmed, v) = DictGet(unit_renames[last], v)
                     /\ merge_pc = "done" =>
                           \A f \in DOMAIN unit_list :
                               merge_prompts[f] =
                                   Renamed(unit_list[f].code, v, DictGet(merge_confirmed, v))

\* the first two functions have a variable a, voted to b and then to c,
\* the third has none: a is c in the code of all three requests
C40_Witness ==
    /\ merge_pc = "done"
    /\ Len(unit_renames) = 3
    /\ unit_renames[1] = << <<<<"a">>, <<"b">>>> >>
    /\ unit_renames[2] = << <<<<"a">>, <<"c">>>> >>
    /\ unit_renames[3] = <<>>
    /\ merge_confirmed = << <<<<"a">>, <<"c">>>> >>
    /\ unit_list[1].code # unit_list[2].code
    /\ merge_prompts[1] = Renamed(unit_list[1].code, <<"a">>, <<"c">>)
    /\ merge_prompts[1] # unit_list[1].code

====
